---- MODULE Spec2Model ----
(***************************************************************************)
(* Smart dog door controller: the state machine of smart_door/core.rs      *)
(* (init, transition), the event loop of smart_door/main.rs and the effect *)
(* workers of smart_door/run_effect.rs.                                    *)
(*                                                                         *)
(* Instants are whole seconds.  transition reads Instant::now() in many    *)
(* arms; the reading is the extra argument clk.                            *)
(***************************************************************************)
EXTENDS Integers, Sequences, FiniteSets, Bags, TLC

VARIABLES
    config,       \* Config handed to SmartDoor::new
    state,        \* run_loop: current_model
    clock,        \* the wall clock (what Instant::now() returns)
    prevState,    \* run_loop: current_model as passed to the last transition
    lastEvent,    \* run_loop: the event of the last transition
    lastEffects,  \* run_loop: the effects returned by the last transition
    queue,        \* the mpsc channel event_sender -> event_receiver
    workers,      \* spawned effect threads that have not finished (a door thread before or after the device executed its command)
    doorLast,     \* last command the door device executed
    cameraUp,     \* the camera's most recent device event was Connected
    doorUp,       \* the door's most recent device event was Connected
    camReported,  \* the loop consumed CameraEvent(Connected) after the last Disconnected it consumed
    doorReported, \* the loop consumed DoorEvent(Connected) after the last Disconnected it consumed
    staleKinds,   \* run_loop history: effect kinds whose outstanding instances were all issued before the last Disconnected consumed
    dogRun,       \* run_loop history: successive classifications holding a qualifying dog, up to the last one consumed (2 = two or more)
    lockCountdown, \* history of the lock countdown: the instant it started, -1 when none is running
    loopResult,   \* run_loop: "running", or the reason it returned
    relay,        \* DogDoorRaspberryPiRelay: the relay pin, is_locked, and what was called on it
    fakeDoor,     \* FakeDogDoor / DeviceDoorFake: which of the two, its locked flag, and the calls made on it (returned or still running)
    multi,        \* MultiDeviceCamera::events: connected_count, what the thread sent last, each camera's last event
    reports,      \* device events the camera and the door can still report in this run (in the runs of the lock countdown: beyond the Connected of a device that is away)
    faulty,       \* whether device calls and the display can fail in this run
    lastTick      \* the tick thread: the instant it last woke up (the instant it started, before its first Tick)

vars == <<config, state, clock, prevState, lastEvent, lastEffects,
          queue, workers, doorLast, cameraUp, doorUp, camReported, doorReported,
          staleKinds, dogRun, lockCountdown, loopResult, relay, fakeDoor, multi,
          reports, faulty, lastTick>>

\* the history kept for the properties only
hist == <<staleKinds, dogRun, lockCountdown>>

\* the device drivers taken on their own
drivers == <<relay, fakeDoor, multi>>

\* the parts only the shutdown paths touch
exits == <<loopResult, drivers>>

(***************************************************************************)
(* Bounds                                                                  *)
(***************************************************************************)
MaxTime == 6        \* last instant of the clock when transition is driven directly
MaxLockTime == 7    \* last instant of the clock in the run of the lock countdown
MaxRunTime == 2     \* last instant at which the running system's tick thread wakes
MaxReports == 3     \* device events the camera and the door report in a run in which calls can fail
MaxHealthyReports == 5  \* device events they report in a run in which nothing fails
MaxLongReports == 1  \* Connected events the camera repeats in the runs of the lock countdown
MaxOutageReports == 1  \* Disconnected events, and Connected events repeated, in a run with outages
MaxPending == 1     \* Ticks waiting in the channel in the runs of the lock countdown

Instants == 0..MaxTime

Max(a, b) == IF a >= b THEN a ELSE b

\* Instant::duration_since saturates to zero when the argument is later
duration_since(now, earlier) == Max(0, now - earlier)

(***************************************************************************)
(* Labels are sequences of characters; confidences are percentages.        *)
(***************************************************************************)
UpperChars == <<"A", "C", "D", "G", "O", "T">>
LowerChars == <<"a", "c", "d", "g", "o", "t">>

to_lowercase(s) ==
    [i \in 1..Len(s) |->
        IF \E k \in 1..Len(UpperChars) : UpperChars[k] = s[i]
        THEN LowerChars[CHOOSE k \in 1..Len(UpperChars) : UpperChars[k] = s[i]]
        ELSE s[i]]

contains(haystack, needle) ==
    \E i \in 0..(Len(haystack) - Len(needle)) :
        SubSeq(haystack, i + 1, i + Len(needle)) = needle

Range(s) == {s[i] : i \in 1..Len(s)}

\* variant: the confidence must exceed min_confidence
label_matches_strict(c, entry) ==
    /\ contains(to_lowercase(c.label), to_lowercase(entry.label))
    /\ c.confidence > entry.min_confidence

\* one element of the closure passed to config.<list>.iter().any(..)
label_matches(c, entry) ==
    /\ contains(to_lowercase(c.label), to_lowercase(entry.label))
    /\ c.confidence >= entry.min_confidence

any_match(classifications, list) ==
    \E f \in 1..Len(classifications) :
        \E i \in 1..Len(classifications[f]) :
            \E u \in 1..Len(list) :
                label_matches(classifications[f][i], list[u])

dog_detected(cfg, classifications) == any_match(classifications, cfg.unlock_list)

cat_detected(cfg, classifications) == any_match(classifications, cfg.lock_list)

(***************************************************************************)
(* core.rs data types                                                      *)
(***************************************************************************)
CameraDisconnected == [tag |-> "Disconnected"]
CameraConnected(t) == [tag |-> "Connected", at |-> t]
CameraStarted == [tag |-> "Started"]

DoorDisconnected == [tag |-> "Disconnected"]
DoorConnected(t) == [tag |-> "Connected", at |-> t]
DoorInitialized == [tag |-> "Initialized"]
DoorLocked == [tag |-> "Locked"]
DoorUnlocked == [tag |-> "Unlocked"]

\* DeviceStates::default()
DeviceStatesDefault == [camera |-> CameraDisconnected, door |-> DoorDisconnected]

DevicesInitializing(ds) == [tag |-> "DevicesInitializing", device_states |-> ds]
AnalyzingFramesCapture(d) == [tag |-> "AnalyzingFramesCapture", door_state |-> d]
AnalyzingFramesClassifying(d, fr) ==
    [tag |-> "AnalyzingFramesClassifying", door_state |-> d, frames |-> fr]
ControllingDoor(a, d, t) ==
    [tag |-> "ControllingDoor", action |-> a, door_state |-> d, start_time |-> t]
Idle(d, m, mt, lc) ==
    [tag |-> "Idle", door_state |-> d, message |-> m, message_time |-> mt,
     last_classification |-> lc]
UnlockedGracePeriod(d, cs) ==
    [tag |-> "UnlockedGracePeriod", door_state |-> d, countdown_start |-> cs]
LockingGracePeriod(d, cs, ld) ==
    [tag |-> "LockingGracePeriod", door_state |-> d, countdown_start |-> cs,
     last_detection |-> ld]
Error(m, d) == [tag |-> "Error", message |-> m, door_state |-> d]

\* Events
Tick(t) == [tag |-> "Tick", now |-> t]
CameraEvent(e) == [tag |-> "CameraEvent", ev |-> e]
DoorEvent(e) == [tag |-> "DoorEvent", ev |-> e]
Ok(v) == [ok |-> TRUE, val |-> v]
Err(e) == [ok |-> FALSE, err |-> e]
CameraStartDone(r) == [tag |-> "CameraStartDone", res |-> r]
DoorLockDone(r) == [tag |-> "DoorLockDone", res |-> r]
DoorUnlockDone(r) == [tag |-> "DoorUnlockDone", res |-> r]
FramesClassifyDone(r) == [tag |-> "FramesClassifyDone", res |-> r]
FramesCaptureDone(r) == [tag |-> "FramesCaptureDone", res |-> r]

\* Effects
StartCamera == [tag |-> "StartCamera"]
LockDoor == [tag |-> "LockDoor"]
UnlockDoor == [tag |-> "UnlockDoor"]
CaptureFrames == [tag |-> "CaptureFrames"]
ClassifyFrames(fr) == [tag |-> "ClassifyFrames", frames |-> fr]
SubscribeToCameraEvents == [tag |-> "SubscribeToCameraEvents"]
SubscribeToDoorEvents == [tag |-> "SubscribeToDoorEvents"]
SubscribeTick == [tag |-> "SubscribeTick"]
Notify(m) == [tag |-> "Notify", message |-> m]

\* Duration::from_secs(5) in the LockingGracePeriod arm
RecheckSecs == 5

(***************************************************************************)
(* core.rs: init                                                           *)
(***************************************************************************)
\* variant: the camera subscription is requested twice, the door's never
init_two_camera ==
    << DevicesInitializing(DeviceStatesDefault),
       << SubscribeToCameraEvents, SubscribeToCameraEvents, SubscribeTick >> >>

init ==
    << DevicesInitializing(DeviceStatesDefault),
       << SubscribeToDoorEvents, SubscribeToCameraEvents, SubscribeTick >> >>

(***************************************************************************)
(* core.rs: transition, one operator per match arm, tried in source order  *)
(***************************************************************************)
\* (DevicesInitializing, CameraEvent(Connected))
ArmInitCameraConnected(s, clk) ==
    << DevicesInitializing([camera |-> CameraConnected(clk),
                            door |-> s.device_states.door]),
       << StartCamera >> >>

\* variant: a started camera never opens the operating phase by itself
ArmInitCameraStartDone_waits(s) ==
    << DevicesInitializing([camera |-> CameraStarted,
                            door |-> s.device_states.door]),
       << >> >>

\* (DevicesInitializing, CameraStartDone(Ok))
ArmInitCameraStartDone(s) ==
    IF s.device_states.door = DoorInitialized
    THEN << AnalyzingFramesCapture(DoorLocked), << CaptureFrames >> >>
    ELSE << DevicesInitializing([camera |-> CameraStarted,
                                 door |-> s.device_states.door]),
            << >> >>

\* variant: a door connection starts the camera sub-state over
ArmInitDoorConnected_resets_camera(s, clk) ==
    << DevicesInitializing([camera |-> CameraDisconnected,
                            door |-> DoorConnected(clk)]),
       << LockDoor >> >>

\* (DevicesInitializing, DoorEvent(Connected))
ArmInitDoorConnected(s, clk) ==
    << DevicesInitializing([camera |-> s.device_states.camera,
                            door |-> DoorConnected(clk)]),
       << LockDoor >> >>

\* (DevicesInitializing, DoorLockDone(Ok))
ArmInitDoorLockDone(s) ==
    IF s.device_states.camera = CameraStarted
    THEN << AnalyzingFramesCapture(DoorLocked), << CaptureFrames >> >>
    ELSE << DevicesInitializing([camera |-> s.device_states.camera,
                                 door |-> DoorInitialized]),
            << >> >>

\* variant: only the first captured frame is sent to the classifier
ArmFramesCaptureDone_head_only(s, frames) ==
    IF Len(frames) = 0
    THEN << AnalyzingFramesCapture(s.door_state), << CaptureFrames >> >>
    ELSE << AnalyzingFramesClassifying(s.door_state, frames),
            << ClassifyFrames(<< Head(frames) >>) >> >>

\* (AnalyzingFramesCapture, FramesCaptureDone(Ok(frames)))
ArmFramesCaptureDone(s, frames) ==
    IF Len(frames) = 0
    THEN << AnalyzingFramesCapture(s.door_state), << CaptureFrames >> >>
    ELSE << AnalyzingFramesClassifying(s.door_state, frames),
            << ClassifyFrames(frames) >> >>

\* variant: a dog unlocks whether or not a cat is seen
ArmFramesClassifyDone_dog_first(cfg, s, classifications, clk) ==
    LET dog == dog_detected(cfg, classifications)
        cat == cat_detected(cfg, classifications)
    IN  IF dog
        THEN << ControllingDoor("Unlocking", s.door_state, clk),
                << UnlockDoor, Notify("Dog detected - unlocking door") >> >>
        ELSE IF cat /\ s.door_state = DoorUnlocked
        THEN << LockingGracePeriod(s.door_state, clk, clk),
                << Notify("Cat detected - preparing to lock") >> >>
        ELSE IF cat
        THEN << Idle(s.door_state, "Cat detected - door remains locked", clk, clk),
                << >> >>
        ELSE << Idle(s.door_state, "No relevant animals detected", clk, clk),
                << >> >>

\* (AnalyzingFramesClassifying, FramesClassifyDone(Ok(classifications)))
ArmFramesClassifyDone(cfg, s, classifications, clk) ==
    LET dog == dog_detected(cfg, classifications)
        cat == cat_detected(cfg, classifications)
    IN  IF dog /\ ~cat
        THEN << ControllingDoor("Unlocking", s.door_state, clk),
                << UnlockDoor, Notify("Dog detected - unlocking door") >> >>
        ELSE IF ~dog /\ cat /\ s.door_state = DoorUnlocked
        THEN << LockingGracePeriod(s.door_state, clk, clk),
                << Notify("Cat detected - preparing to lock") >> >>
        ELSE IF ~dog /\ cat
        THEN << Idle(s.door_state, "Cat detected - door remains locked", clk, clk),
                << >> >>
        ELSE << Idle(s.door_state, "No relevant animals detected", clk, clk),
                << >> >>

\* (LockingGracePeriod, Tick(now))
ArmLockingGraceTick(cfg, s, now, clk) ==
    LET grace_elapsed == duration_since(now, s.countdown_start)
        since_last_detection == duration_since(now, s.last_detection)
    IN  IF grace_elapsed >= cfg.locking_grace_period
        THEN << ControllingDoor("Locking", s.door_state, clk), << LockDoor >> >>
        ELSE IF since_last_detection >= RecheckSecs
        THEN << AnalyzingFramesCapture(s.door_state), << CaptureFrames >> >>
        ELSE << s, << >> >>

\* variant: the unlocked grace period ends with a lock command
ArmUnlockedGraceTick_locks(cfg, s, now) ==
    IF duration_since(now, s.countdown_start) >= cfg.unlock_grace_period
    THEN << ControllingDoor("Locking", s.door_state, now), << LockDoor >> >>
    ELSE << s, << >> >>

\* (UnlockedGracePeriod, Tick(now))
ArmUnlockedGraceTick(cfg, s, now) ==
    IF duration_since(now, s.countdown_start) >= cfg.unlock_grace_period
    THEN << AnalyzingFramesCapture(s.door_state), << CaptureFrames >> >>
    ELSE << s, << >> >>

\* (ControllingDoor, DoorLockDone(Ok))
ArmControlLockOk(clk) ==
    << Idle(DoorLocked, "Door locked successfully", clk, clk), << >> >>

\* (ControllingDoor, DoorUnlockDone(Ok))
ArmControlUnlockOk(clk) ==
    << UnlockedGracePeriod(DoorUnlocked, clk), << >> >>

\* (ControllingDoor, DoorLockDone(Err(e)))
ArmControlLockErr(s, e) ==
    << Error("Failed to lock door: " \o e, s.door_state),
       << Notify("Door lock failed!") >> >>

\* variant: a failed unlock is recorded as if the door had opened
ArmControlUnlockErr_unlocked(s, e) ==
    << Error("Failed to unlock door: " \o e, DoorUnlocked),
       << Notify("Door unlock failed!") >> >>

\* (ControllingDoor, DoorUnlockDone(Err(e)))
ArmControlUnlockErr(s, e) ==
    << Error("Failed to unlock door: " \o e, s.door_state),
       << Notify("Door unlock failed!") >> >>

\* (Error, DoorEvent(Connected))
ArmErrorDoorConnected(clk) ==
    << DevicesInitializing([camera |-> CameraDisconnected,
                            door |-> DoorConnected(clk)]),
       << LockDoor >> >>

\* (Error, CameraEvent(Connected))
ArmErrorCameraConnected(s, clk) ==
    << DevicesInitializing([camera |-> CameraConnected(clk),
                            door |-> s.door_state]),
       << StartCamera >> >>

\* variant: the capture starts only after more than analyze_rate
ArmIdleTick_late(cfg, s, now) ==
    IF duration_since(now, s.last_classification) > cfg.analyze_rate
    THEN << AnalyzingFramesCapture(s.door_state), << CaptureFrames >> >>
    ELSE << s, << >> >>

\* variant: an idle controller never captures again
ArmIdleTick_never(cfg, s, now) == << s, << >> >>

\* (Idle, Tick(now))
ArmIdleTick(cfg, s, now) ==
    IF duration_since(now, s.last_classification) >= cfg.analyze_rate
    THEN << AnalyzingFramesCapture(s.door_state), << CaptureFrames >> >>
    ELSE << s, << >> >>

\* variant: a camera disconnection also commands the lock
ArmCameraDisconnected_locks ==
    << DevicesInitializing(DeviceStatesDefault), << LockDoor >> >>

\* (_, CameraEvent(Disconnected))
ArmCameraDisconnected ==
    << DevicesInitializing(DeviceStatesDefault), << >> >>

\* (_, DoorEvent(Disconnected))
ArmDoorDisconnected(s) ==
    << DevicesInitializing(DeviceStatesDefault),
       IF s.tag = "UnlockedGracePeriod" THEN << LockDoor >> ELSE << >> >>

\* variant: an unmatched event resets the controller
ArmDefault_reset(s) == << DevicesInitializing(DeviceStatesDefault), << >> >>

\* (state, _): no state change
ArmDefault(s) == << s, << >> >>

IsOkDone(e, tag) == e.tag = tag /\ e.res.ok
IsErrDone(e, tag) == e.tag = tag /\ ~e.res.ok
IsDev(e, tag, ev) == e.tag = tag /\ e.ev = ev

transition(cfg, s, e, clk) ==
    IF s.tag = "DevicesInitializing" /\ IsDev(e, "CameraEvent", "Connected")
        THEN ArmInitCameraConnected(s, clk)
    ELSE IF s.tag = "DevicesInitializing" /\ IsOkDone(e, "CameraStartDone")
        THEN ArmInitCameraStartDone(s)
    ELSE IF s.tag = "DevicesInitializing" /\ IsDev(e, "DoorEvent", "Connected")
        THEN ArmInitDoorConnected(s, clk)
    ELSE IF s.tag = "DevicesInitializing" /\ IsOkDone(e, "DoorLockDone")
        THEN ArmInitDoorLockDone(s)
    ELSE IF s.tag = "AnalyzingFramesCapture" /\ IsOkDone(e, "FramesCaptureDone")
        THEN ArmFramesCaptureDone(s, e.res.val)
    ELSE IF s.tag = "AnalyzingFramesClassifying" /\ IsOkDone(e, "FramesClassifyDone")
        THEN ArmFramesClassifyDone(cfg, s, e.res.val, clk)
    ELSE IF s.tag = "LockingGracePeriod" /\ e.tag = "Tick"
        THEN ArmLockingGraceTick(cfg, s, e.now, clk)
    ELSE IF s.tag = "UnlockedGracePeriod" /\ e.tag = "Tick"
        THEN ArmUnlockedGraceTick(cfg, s, e.now)
    ELSE IF s.tag = "ControllingDoor" /\ IsOkDone(e, "DoorLockDone")
        THEN ArmControlLockOk(clk)
    ELSE IF s.tag = "ControllingDoor" /\ IsOkDone(e, "DoorUnlockDone")
        THEN ArmControlUnlockOk(clk)
    ELSE IF s.tag = "ControllingDoor" /\ IsErrDone(e, "DoorLockDone")
        THEN ArmControlLockErr(s, e.res.err)
    ELSE IF s.tag = "ControllingDoor" /\ IsErrDone(e, "DoorUnlockDone")
        THEN ArmControlUnlockErr(s, e.res.err)
    ELSE IF s.tag = "Error" /\ IsDev(e, "DoorEvent", "Connected")
        THEN ArmErrorDoorConnected(clk)
    ELSE IF s.tag = "Error" /\ IsDev(e, "CameraEvent", "Connected")
        THEN ArmErrorCameraConnected(s, clk)
    ELSE IF s.tag = "Idle" /\ e.tag = "Tick"
        THEN ArmIdleTick(cfg, s, e.now)
    ELSE IF IsDev(e, "CameraEvent", "Disconnected")
        THEN ArmCameraDisconnected
    ELSE IF IsDev(e, "DoorEvent", "Disconnected")
        THEN ArmDoorDisconnected(s)
    ELSE ArmDefault(s)

(***************************************************************************)
(* Inputs                                                                  *)
(***************************************************************************)
dog == <<"d", "o", "g">>
DOG == <<"D", "O", "G">>
cat == <<"c", "a", "t">>
hotdog == <<"h", "o", "t", "d", "o", "g">>
bird == <<"b", "i", "r", "d">>

Classification(l, c) == [label |-> l, confidence |-> c]
ClassificationConfig(l, c) == [label |-> l, min_confidence |-> c]

\* Config::default(): tick_rate and analyze_rate 1 s, both grace periods 3 s, cat >= 0.5, dog >= 0.8
ConfigDefault ==
    [tick_rate |-> 1, analyze_rate |-> 1, unlock_grace_period |-> 3, locking_grace_period |-> 3,
     lock_list |-> << ClassificationConfig(cat, 50) >>,
     unlock_list |-> << ClassificationConfig(dog, 80) >>]

\* a locking window longer than the 5 s re-check, and a mixed-case unlock label
ConfigLongLock ==
    [tick_rate |-> 1, analyze_rate |-> 2, unlock_grace_period |-> 1, locking_grace_period |-> 6,
     lock_list |-> << ClassificationConfig(cat, 50) >>,
     unlock_list |-> << ClassificationConfig(DOG, 80) >>]

\* nothing listed
ConfigEmptyLists ==
    [tick_rate |-> 1, analyze_rate |-> 1, unlock_grace_period |-> 0, locking_grace_period |-> 0,
     lock_list |-> << >>, unlock_list |-> << >>]

CoreConfigs == {ConfigDefault, ConfigLongLock, ConfigEmptyLists}
\* short windows, so that the running system gets through them
ConfigQuick ==
    [tick_rate |-> 1, analyze_rate |-> 1, unlock_grace_period |-> 1, locking_grace_period |-> 1,
     lock_list |-> << ClassificationConfig(cat, 50) >>,
     unlock_list |-> << ClassificationConfig(dog, 80) >>]

RunConfigs == {ConfigQuick}

\* the door relocks at once after unlocking; a locking window longer than the 5 s re-check
ConfigSlowLock ==
    [tick_rate |-> 1, analyze_rate |-> 1, unlock_grace_period |-> 0, locking_grace_period |-> 6,
     lock_list |-> << ClassificationConfig(cat, 50) >>,
     unlock_list |-> << ClassificationConfig(dog, 80) >>]

LockConfigs == {ConfigDefault, ConfigSlowLock}

FrameA == <<1>>
FrameB == <<2>>
CaptureResults == { << >>, << FrameA >>, << FrameA, FrameB >> }
RunCaptureResults == { << >>, << FrameA >> }

ClassifyResults ==
    { << >>,
      << << >> >>,
      << << Classification(dog, 90) >> >>,
      << << Classification(dog, 80) >> >>,
      << << Classification(dog, 79) >> >>,
      << << Classification(DOG, 90) >> >>,
      << << Classification(hotdog, 85) >> >>,
      << << Classification(cat, 50) >> >>,
      << << Classification(cat, 49) >> >>,
      << << Classification(bird, 99) >> >>,
      << << Classification(dog, 90), Classification(cat, 90) >> >>,
      << << Classification(bird, 99) >>, << Classification(dog, 90) >> >>,
      << << Classification(cat, 90) >>, << Classification(dog, 90) >> >> }

RunClassifyResults ==
    { << << >> >>,
      << << Classification(dog, 90) >> >>,
      << << Classification(cat, 90) >> >>,
      << << Classification(dog, 90), Classification(cat, 90) >> >> }

Errs == {"io"}

Results(vals) == {Ok(v) : v \in vals} \cup {Err(x) : x \in Errs}

DeviceEvents == {"Connected", "Disconnected"}

\* every Event value transition can be handed, Tick instants up to t
CoreEvents(t) ==
    {Tick(n) : n \in 0..t}
    \cup {CameraEvent(x) : x \in DeviceEvents}
    \cup {DoorEvent(x) : x \in DeviceEvents}
    \cup {CameraStartDone(r) : r \in Results({<<>>})}
    \cup {DoorLockDone(r) : r \in Results({<<>>})}
    \cup {DoorUnlockDone(r) : r \in Results({<<>>})}
    \cup {FramesCaptureDone(r) : r \in Results(CaptureResults)}
    \cup {FramesClassifyDone(r) : r \in Results(ClassifyResults)}

NoEvent == [tag |-> "Init"]

(***************************************************************************)
(* History kept for the properties                                         *)
(***************************************************************************)
\* The detection rule as the specification words it, written without the
\* operators of the model: label u occurs in label c, letter case ignored.
FoldCase(ch) ==
    CASE ch = "A" -> "a" [] ch = "C" -> "c" [] ch = "D" -> "d"
      [] ch = "G" -> "g" [] ch = "O" -> "o" [] ch = "T" -> "t"
      [] OTHER -> ch

OccursIn(u, c) ==
    \E before \in 0..Len(c) :
        /\ before + Len(u) <= Len(c)
        /\ \A k \in 1..Len(u) : FoldCase(c[before + k]) = FoldCase(u[k])

Listed(cs, list) ==
    \E f \in Range(cs) : \E c \in Range(f) : \E u \in Range(list) :
        /\ OccursIn(u.label, c.label)
        /\ ~(c.confidence < u.min_confidence)

\* the effect a completion event completes
CompletedKind(e) ==
    CASE e.tag = "CameraStartDone" -> "StartCamera"
      [] e.tag = "DoorLockDone" -> "LockDoor"
      [] e.tag = "DoorUnlockDone" -> "UnlockDoor"
      [] e.tag = "FramesCaptureDone" -> "CaptureFrames"
      [] e.tag = "FramesClassifyDone" -> "ClassifyFrames"
      [] OTHER -> "none"

IsCompletion(e) == CompletedKind(e) # "none"

IsDisconnect(e) == e.tag \in {"CameraEvent", "DoorEvent"} /\ e.ev = "Disconnected"

\* kinds of the effects issued and not yet answered by a consumed completion:
\* a thread not yet run (w) or a completion still in the channel (q)
OutstandingKinds(q, w) ==
    {eff.tag : eff \in {x \in BagToSet(w) :
                           x.tag \in {"StartCamera", "LockDoor", "UnlockDoor",
                                      "CaptureFrames", "ClassifyFrames"}}}
    \cup {CompletedKind(q[i]) : i \in {j \in 1..Len(q) : IsCompletion(q[j])}}

\* staleKinds after the loop consumed e from channel q, threads w, and issued effs
StaleAfter(q, w, e, effs) ==
    (IF IsDisconnect(e) THEN OutstandingKinds(Tail(q), w) ELSE staleKinds)
        \ {effs[i].tag : i \in 1..Len(effs)}

\* dogRun after transition handled e in state s
DogRunAfter(s, e) ==
    IF s.tag = "AnalyzingFramesClassifying" /\ e.tag = "FramesClassifyDone" /\ e.res.ok
    THEN IF Listed(e.res.val, config.unlock_list)
         THEN (IF dogRun = 0 THEN 1 ELSE 2)
         ELSE 0
    ELSE dogRun

(***************************************************************************)
(* render.rs: Render::render.  The value is the sequence of write_line     *)
(* calls made after clear(), now being the wall clock at the call.         *)
(***************************************************************************)
write_line(l, text) == [line |-> l, text |-> text]

\* str::split_whitespace on the messages transition stores in Idle
split_whitespace(m) ==
    CASE m = "Cat detected - door remains locked" ->
             <<"Cat", "detected", "-", "door", "remains", "locked">>
      [] m = "No relevant animals detected" ->
             <<"No", "relevant", "animals", "detected">>
      [] m = "Door locked successfully" ->
             <<"Door", "locked", "successfully">>
      [] OTHER -> << m >>

\* render.rs 113-135: fill lines of at most 16 characters; the first full
\* line goes to row 0, every later one and the remainder to row 1
RECURSIVE wrap_words(_, _, _, _)
wrap_words(words, line, first, written) ==
    IF words = << >>
    THEN Append(written, write_line(IF first THEN 0 ELSE 1, line))
    ELSE LET word == Head(words)
         IN  IF Len(line) + Len(word) + 1 <= 16
             THEN wrap_words(Tail(words),
                             IF line = "" THEN word ELSE line \o " " \o word,
                             first, written)
             ELSE wrap_words(Tail(words), word, FALSE,
                             Append(written, write_line(IF first THEN 0 ELSE 1, line)))

render_camera(c, now) ==
    IF c.tag = "Disconnected" THEN write_line(0, "Camera connecting...")
    ELSE IF c.tag = "Connected"
    THEN IF duration_since(now, c.at) > 2
         THEN write_line(0, "Camera connected")
         ELSE write_line(0, "Camera connecting...")
    ELSE write_line(0, "Camera connected")

render_door(d, now) ==
    IF d.tag = "Disconnected" THEN write_line(1, "Door connecting...")
    ELSE IF d.tag = "Connected"
    THEN IF duration_since(now, d.at) > 2
         THEN write_line(1, "Door connected")
         ELSE write_line(1, "Door connecting...")
    ELSE write_line(1, "Door connected")

render(cfg, s, now) ==
    IF s.tag = "Error"
    THEN << write_line(0, "Error: " \o s.message) >>
    ELSE IF s.tag = "DevicesInitializing"
    THEN << render_camera(s.device_states.camera, now),
            render_door(s.device_states.door, now) >>
    ELSE IF s.tag \in {"AnalyzingFramesCapture", "AnalyzingFramesClassifying"}
    THEN << write_line(0, "Analyzing...") >>
    ELSE IF s.tag = "ControllingDoor"
    THEN IF s.action = "Locking"
         THEN IF duration_since(now, s.start_time) > 2
              THEN << write_line(0, "Door locked") >>
              ELSE << write_line(0, "Locking door...") >>
         ELSE IF duration_since(now, s.start_time) > 2
              THEN << write_line(0, "Door unlocked") >>
              ELSE << write_line(0, "Unlocking door...") >>
    ELSE IF s.tag = "UnlockedGracePeriod"
    THEN << write_line(0, "Door unlocked ("
                \o ToString(Max(cfg.unlock_grace_period
                                  - duration_since(now, s.countdown_start), 0))
                \o "s)") >>
    ELSE IF s.tag = "LockingGracePeriod"
    THEN << write_line(0, "Locking in "
                \o ToString(Max(cfg.locking_grace_period
                                  - duration_since(now, s.countdown_start), 0))
                \o "...") >>
    ELSE IF duration_since(now, s.message_time) > 2
    THEN << write_line(0, "Analyzing...") >>
    ELSE wrap_words(split_whitespace(s.message), "", TRUE, << >>)

(***************************************************************************)
(* device_door/impl_raspberry_pi_relay.rs: DogDoorRaspberryPiRelay.        *)
(* set_high powers the electromagnet (locked), set_low releases it.        *)
(***************************************************************************)
MaxCalls == 3       \* lock()/unlock() calls made on the driver before it is dropped

\* new(): is_locked false, no level written to the pin yet
RelayNew ==
    [relay_pin |-> "unset", is_locked |-> FALSE, dropped |-> FALSE,
     applied |-> << >>, calls |-> << >>]

\* lock(): log1 and log2 are the outcomes of the two logger.info calls
relay_lock(r, log1, log2) ==
    IF r.is_locked THEN << r, TRUE >>
    ELSE IF ~log1 THEN << r, FALSE >>
    ELSE << [r EXCEPT !.relay_pin = "high", !.is_locked = TRUE,
                      !.applied = Append(@, "set_high")],
            log2 >>

\* unlock()
relay_unlock(r, log1, log2) ==
    IF ~r.is_locked THEN << r, TRUE >>
    ELSE IF ~log1 THEN << r, FALSE >>
    ELSE << [r EXCEPT !.relay_pin = "low", !.is_locked = FALSE,
                      !.applied = Append(@, "set_low")],
            log2 >>

\* Drop::drop: stop the event thread, then self.unlock(), its error only printed
relay_drop(r, log1, log2) ==
    [relay_unlock(r, log1, log2)[1] EXCEPT !.dropped = TRUE]

\* is_unlocked()
relay_is_unlocked(r) == ~r.is_locked

(***************************************************************************)
(* dog_door/impl_fake.rs: FakeDogDoor, and device_door/impl_fake.rs:       *)
(* DeviceDoorFake.  Both keep an AtomicBool locked, false at first.        *)
(***************************************************************************)
FakeImpls == {"FakeDogDoor", "DeviceDoorFake"}

\* new()
FakeNew(impl) == [impl |-> impl, locked |-> FALSE, calls |-> << >>]

\* lock(): log1 and log2 are the outcomes of the two logger.info calls; the
\* store is between them, and the call sleeps 1 s before the second one
fake_lock(d, log1, log2) ==
    IF ~log1 THEN << d, FALSE >>
    ELSE << [d EXCEPT !.locked = TRUE], log2 >>

\* unlock()
fake_unlock(d, log1, log2) ==
    IF ~log1 THEN << d, FALSE >>
    ELSE << [d EXCEPT !.locked = FALSE], log2 >>

\* is_unlocked(): FakeDogDoor returns the flag, DeviceDoorFake its negation
fake_is_unlocked(d) ==
    IF d.impl = "FakeDogDoor" THEN d.locked ELSE ~d.locked

(***************************************************************************)
(* device_camera/impl_multi.rs: MultiDeviceCamera::events.  The thread     *)
(* polls the receivers of its cameras in turn and keeps one counter; the   *)
(* DeviceCamera trait puts no constraint on the events a camera sends.     *)
(***************************************************************************)
MaxCameras == 3     \* cameras handed to MultiDeviceCamera::new
MaxEvents == 4      \* camera events the thread receives

MainCameras == 2

\* the thread before its first try_recv; last and received are history: each camera's most recent event
\* taken from its receiver ("None" before the first), and how many events were taken
MultiNew(n) ==
    [cameras |-> n, connected_count |-> 0, sent |-> "None",
     last |-> [i \in 1..n |-> "None"], received |-> 0]

\* a.saturating_sub(b) on usize
saturating_sub(a, b) == IF a >= b THEN a - b ELSE 0

\* the body of `if let Ok(event) = receiver.try_recv()` for the receiver of camera i; sent is what this
\* iteration passed to tx.send, "None" when it sent nothing
multi_recv(m, i, event) ==
    LET count == IF event = "Connected"
                 THEN m.connected_count + 1
                 ELSE saturating_sub(m.connected_count, 1)
        out == IF event = "Connected"
               THEN IF count = m.cameras THEN "Connected" ELSE "None"
               ELSE IF count = 0 THEN "Disconnected" ELSE "None"
    IN [m EXCEPT !.connected_count = count,
                 !.sent = out,
                 !.last = [m.last EXCEPT ![i] = event],
                 !.received = m.received + 1]

(***************************************************************************)
(* main.rs: run_loop                                                       *)
(***************************************************************************)
IsOneShot(eff) ==
    eff.tag \in {"StartCamera", "LockDoor", "UnlockDoor", "CaptureFrames", "ClassifyFrames"}

IsSubscription(eff) ==
    eff.tag \in {"SubscribeToDoorEvents", "SubscribeToCameraEvents", "SubscribeTick"}

\* spawn_effects: one thread per effect.  run_effect has no arm for Notify,
\* so a Notify thread sends nothing and is not tracked.
RECURSIVE spawn_effects(_)
spawn_effects(effs) ==
    IF effs = << >> THEN EmptyBag
    ELSE IF IsOneShot(Head(effs)) \/ IsSubscription(Head(effs))
         THEN SetToBag({Head(effs)}) (+) spawn_effects(Tail(effs))
         ELSE spawn_effects(Tail(effs))

OneShots(b) == {eff \in BagToSet(b) : IsOneShot(eff)}

RECURSIVE SumCopies(_, _)
SumCopies(b, S) ==
    IF S = {} THEN 0
    ELSE LET x == CHOOSE y \in S : TRUE
         IN  CopiesIn(x, b) + SumCopies(b, S \ {x})

\* one iteration of the loop body on event e, Instant::now() being clock
Apply(e) ==
    LET r == transition(config, state, e, clock)
    IN  /\ state' = r[1]
        /\ lastEffects' = r[2]
        /\ prevState' = state
        /\ lastEvent' = e
        /\ camReported' =
              IF e.tag \in {"CameraEvent", "DoorEvent"} /\ e.ev = "Disconnected" THEN FALSE
              ELSE IF IsDev(e, "CameraEvent", "Connected") THEN TRUE
              ELSE camReported
        /\ doorReported' =
              IF e.tag \in {"CameraEvent", "DoorEvent"} /\ e.ev = "Disconnected" THEN FALSE
              ELSE IF IsDev(e, "DoorEvent", "Connected") THEN TRUE
              ELSE doorReported

(***************************************************************************)
(* transition driven directly, as the unit tests drive it: any event in    *)
(* any state reached from init(), any configuration                        *)
(***************************************************************************)
InitCore ==
    /\ config \in CoreConfigs
    /\ state = init[1]
    /\ lastEffects = init[2]
    /\ prevState = init[1]
    /\ lastEvent = NoEvent
    /\ clock = 0
    /\ queue = << >>
    /\ workers = EmptyBag
    /\ doorLast = "none"
    /\ cameraUp = FALSE
    /\ doorUp = FALSE
    /\ camReported = FALSE
    /\ doorReported = FALSE
    /\ staleKinds = {}
    /\ dogRun = 0
    /\ lockCountdown = -1
    /\ loopResult = "running"
    /\ relay = RelayNew
    /\ fakeDoor = FakeNew("DeviceDoorFake")
    /\ multi = MultiNew(MainCameras)
    /\ reports = 0
    /\ faulty = TRUE
    /\ lastTick = 0

CoreStep ==
    /\ \E e \in CoreEvents(clock) : Apply(e)
    /\ UNCHANGED <<config, faulty, lastTick, clock, queue, workers, doorLast, cameraUp, doorUp, hist, exits, reports>>

CoreAdvance ==
    /\ clock < MaxTime
    /\ clock' = clock + 1
    /\ UNCHANGED <<config, faulty, lastTick, state, prevState, lastEvent, lastEffects, queue, workers,
                   doorLast, cameraUp, doorUp, camReported, doorReported, hist, exits, reports>>

NextCore == CoreStep \/ CoreAdvance

SpecCore == InitCore /\ [][NextCore]_vars

(***************************************************************************)
(* The running system: run_loop, the effect threads of run_effect.rs, the  *)
(* devices and the clock                                                   *)
(***************************************************************************)
Init ==
    /\ config \in RunConfigs
    /\ state = init[1]
    /\ lastEffects = init[2]
    /\ prevState = init[1]
    /\ lastEvent = NoEvent
    /\ clock = 0
    /\ queue = << >>
    /\ workers = spawn_effects(init[2])
    /\ doorLast = "none"
    /\ cameraUp = FALSE
    /\ doorUp = FALSE
    /\ camReported = FALSE
    /\ doorReported = FALSE
    /\ staleKinds = {}
    /\ dogRun = 0
    /\ lockCountdown = -1
    /\ loopResult = "running"
    /\ relay = RelayNew
    /\ fakeDoor = FakeNew("DeviceDoorFake")
    /\ multi = MultiNew(MainCameras)
    /\ reports = MaxReports
    /\ faulty = TRUE
    /\ lastTick = 0

\* run_loop: recv, transition, store the model, render, spawn_effects.  When render returns Err the loop
\* returns after the model was stored and before spawn_effects; the effect threads are detached and go on.
LoopBody ==
    /\ loopResult = "running"
    /\ queue # << >>
    /\ Apply(Head(queue))
    /\ queue' = Tail(queue)
    /\ \E rendered \in (IF faulty THEN BOOLEAN ELSE {TRUE}) :
          IF rendered
          THEN /\ workers' = workers
                      (+) spawn_effects(transition(config, state, Head(queue), clock)[2])
               /\ loopResult' = "running"
          ELSE /\ workers' = workers
               /\ loopResult' = "render failed"
    /\ UNCHANGED <<config, faulty, lastTick, clock, doorLast, cameraUp, doorUp, drivers, reports>>

LoopStep ==
    /\ LoopBody
    /\ UNCHANGED hist

\* the same iteration, with the history of completions and detections kept
LoopStepTracked ==
    /\ LoopBody
    /\ staleKinds' = StaleAfter(queue, workers, Head(queue),
                                transition(config, state, Head(queue), clock)[2])
    /\ dogRun' = DogRunAfter(state, Head(queue))
    /\ UNCHANGED lockCountdown

Send(e) == queue' = Append(queue, e)

Finish(eff) == workers' = workers (-) SetToBag({eff})

\* what a device call can return in this run
Outcomes(vals) == IF faulty THEN Results(vals) ELSE {Ok(v) : v \in vals}


\* run_effect, Effect::StartCamera
RunStartCamera ==
    /\ BagIn(StartCamera, workers)
    /\ \E r \in Outcomes({<<>>}) : Send(CameraStartDone(r))
    /\ Finish(StartCamera)
    /\ UNCHANGED <<config, faulty, lastTick, state, clock, prevState, lastEvent, lastEffects,
                   doorLast, cameraUp, doorUp, camReported, doorReported, hist, exits, reports>>

\* a door thread inside lock() / unlock() of the device, after the store and before the call returns
InLock == [tag |-> "LockDoor", stored |-> TRUE]
InUnlock == [tag |-> "UnlockDoor", stored |-> TRUE]

\* run_effect, Effect::LockDoor, up to the store in DeviceDoorFake::lock: the first log call returned Ok, the
\* flag is stored, and the thread sleeps inside lock() while the loop and the other threads run
DoorLockStore ==
    /\ BagIn(LockDoor, workers)
    /\ workers' = (workers (-) SetToBag({LockDoor})) (+) SetToBag({InLock})
    /\ doorLast' = "lock"
    /\ UNCHANGED <<config, faulty, lastTick, state, clock, prevState, lastEvent, lastEffects, queue,
                   cameraUp, doorUp, camReported, doorReported, hist, exits, reports>>

\* run_effect, Effect::UnlockDoor, up to the store in DeviceDoorFake::unlock
DoorUnlockStore ==
    /\ BagIn(UnlockDoor, workers)
    /\ workers' = (workers (-) SetToBag({UnlockDoor})) (+) SetToBag({InUnlock})
    /\ doorLast' = "unlock"
    /\ UNCHANGED <<config, faulty, lastTick, state, clock, prevState, lastEvent, lastEffects, queue,
                   cameraUp, doorUp, camReported, doorReported, hist, exits, reports>>

\* variant: the lock thread reports its result as an unlock completion
RunLockDoor_wrong_kind ==
    /\ \/ /\ BagIn(LockDoor, workers)
          /\ faulty
          /\ \E x \in Errs : Send(DoorUnlockDone(Err(x)))
          /\ Finish(LockDoor)
       \/ /\ BagIn(InLock, workers)
          /\ \E r \in Outcomes({<<>>}) : Send(DoorUnlockDone(r))
          /\ Finish(InLock)
    /\ UNCHANGED <<config, faulty, lastTick, state, clock, prevState, lastEvent, lastEffects,
                   doorLast, cameraUp, doorUp, camReported, doorReported, hist, exits, reports>>

\* run_effect, Effect::LockDoor: lock() returns and its result is sent.  Either the first log call failed
\* and lock() returned Err before the store, or the thread wakes after the store and the result depends on
\* the second log call.
RunLockDoor ==
    /\ \/ /\ BagIn(LockDoor, workers)
          /\ faulty
          /\ \E x \in Errs : Send(DoorLockDone(Err(x)))
          /\ Finish(LockDoor)
       \/ /\ BagIn(InLock, workers)
          /\ \E r \in Outcomes({<<>>}) : Send(DoorLockDone(r))
          /\ Finish(InLock)
    /\ UNCHANGED <<config, faulty, lastTick, state, clock, prevState, lastEvent, lastEffects,
                   doorLast, cameraUp, doorUp, camReported, doorReported, hist, exits, reports>>

\* run_effect, Effect::UnlockDoor: unlock() returns and its result is sent
RunUnlockDoor ==
    /\ \/ /\ BagIn(UnlockDoor, workers)
          /\ faulty
          /\ \E x \in Errs : Send(DoorUnlockDone(Err(x)))
          /\ Finish(UnlockDoor)
       \/ /\ BagIn(InUnlock, workers)
          /\ \E r \in Outcomes({<<>>}) : Send(DoorUnlockDone(r))
          /\ Finish(InUnlock)
    /\ UNCHANGED <<config, faulty, lastTick, state, clock, prevState, lastEvent, lastEffects,
                   doorLast, cameraUp, doorUp, camReported, doorReported, hist, exits, reports>>

\* run_effect, Effect::CaptureFrames
RunCaptureFrames ==
    /\ BagIn(CaptureFrames, workers)
    /\ \E r \in Outcomes(RunCaptureResults) : Send(FramesCaptureDone(r))
    /\ Finish(CaptureFrames)
    /\ UNCHANGED <<config, faulty, lastTick, state, clock, prevState, lastEvent, lastEffects,
                   doorLast, cameraUp, doorUp, camReported, doorReported, hist, exits, reports>>

\* run_effect, Effect::ClassifyFrames
RunClassifyFrames ==
    /\ \E eff \in BagToSet(workers) :
          /\ eff.tag = "ClassifyFrames"
          /\ Finish(eff)
    /\ \E r \in Outcomes(RunClassifyResults) : Send(FramesClassifyDone(r))
    /\ UNCHANGED <<config, faulty, lastTick, state, clock, prevState, lastEvent, lastEffects,
                   doorLast, cameraUp, doorUp, camReported, doorReported, hist, exits, reports>>

\* a second passes for the running system
RunAdvance ==
    /\ clock < MaxRunTime
    /\ clock' = clock + 1
    /\ UNCHANGED <<config, faulty, lastTick, state, prevState, lastEvent, lastEffects, queue, workers,
                   doorLast, cameraUp, doorUp, camReported, doorReported, hist, exits, reports>>

\* run_effect, Effect::SubscribeTick: sleep(tick_rate), then send
\* Tick(Instant::now()).  The thread wakes up once tick_rate has passed since
\* it last did.  The channel is unbounded and a send never blocks.
RunSubscribeTick ==
    /\ BagIn(SubscribeTick, workers)
    /\ clock - lastTick >= config.tick_rate
    /\ lastTick' = clock
    /\ Send(Tick(clock))
    /\ UNCHANGED <<config, faulty, state, clock, prevState, lastEvent, lastEffects, workers,
                   doorLast, cameraUp, doorUp, camReported, doorReported, hist, exits, reports>>

\* run_effect, Effect::SubscribeToCameraEvents: forward the camera's next event, one of evs.
SubscribeCamera(evs) ==
    /\ BagIn(SubscribeToCameraEvents, workers)
    /\ \E ev \in evs :
          /\ cameraUp' = (ev = "Connected")
          /\ Send(CameraEvent(ev))
    /\ UNCHANGED <<config, faulty, lastTick, state, clock, prevState, lastEvent, lastEffects, workers,
                   doorLast, doorUp, camReported, doorReported, hist, exits>>

\* The camera is a MultiDeviceCamera (main.rs 27-30), which forwards Connected or Disconnected in any order.
RunSubscribeToCameraEvents ==
    /\ reports > 0
    /\ reports' = reports - 1
    /\ SubscribeCamera(DeviceEvents)

\* run_effect, Effect::SubscribeToDoorEvents: forward the door's next event.  The door is a DeviceDoorFake
\* (main.rs 32), which sends Connected and Disconnected in turn.
SubscribeDoor ==
    /\ BagIn(SubscribeToDoorEvents, workers)
    /\ doorUp' = ~doorUp
    /\ Send(DoorEvent(IF doorUp THEN "Disconnected" ELSE "Connected"))
    /\ UNCHANGED <<config, faulty, lastTick, state, clock, prevState, lastEvent, lastEffects, workers,
                   doorLast, cameraUp, camReported, doorReported, hist, exits>>

RunSubscribeToDoorEvents ==
    /\ reports > 0
    /\ reports' = reports - 1
    /\ SubscribeDoor

Next ==
    \/ LoopStep
    \/ RunStartCamera
    \/ DoorLockStore
    \/ DoorUnlockStore
    \/ RunLockDoor
    \/ RunUnlockDoor
    \/ RunCaptureFrames
    \/ RunClassifyFrames
    \/ RunSubscribeTick
    \/ RunSubscribeToCameraEvents
    \/ RunSubscribeToDoorEvents
    \/ RunAdvance

Spec == Init /\ [][Next]_vars

\* the running system when no device call and no render fails
InitHealthy ==
    /\ config \in RunConfigs
    /\ state = init[1]
    /\ lastEffects = init[2]
    /\ prevState = init[1]
    /\ lastEvent = NoEvent
    /\ clock = 0
    /\ queue = << >>
    /\ workers = spawn_effects(init[2])
    /\ doorLast = "none"
    /\ cameraUp = FALSE
    /\ doorUp = FALSE
    /\ camReported = FALSE
    /\ doorReported = FALSE
    /\ staleKinds = {}
    /\ dogRun = 0
    /\ lockCountdown = -1
    /\ loopResult = "running"
    /\ relay = RelayNew
    /\ fakeDoor = FakeNew("DeviceDoorFake")
    /\ multi = MultiNew(MainCameras)
    /\ reports = MaxHealthyReports
    /\ faulty = FALSE
    /\ lastTick = 0

SpecHealthy == InitHealthy /\ [][Next]_vars

\* the running system with the history kept
NextTracked ==
    \/ LoopStepTracked
    \/ RunStartCamera
    \/ DoorLockStore
    \/ DoorUnlockStore
    \/ RunLockDoor
    \/ RunUnlockDoor
    \/ RunCaptureFrames
    \/ RunClassifyFrames
    \/ RunSubscribeTick
    \/ RunSubscribeToCameraEvents
    \/ RunSubscribeToDoorEvents
    \/ RunAdvance

SpecTracked == Init /\ [][NextTracked]_vars

(***************************************************************************)
(* The running system over MaxLockTime seconds, for the lock countdown: no *)
(* device call and no render fails, and neither device reports             *)
(* Disconnected.  The threads are those of the running system: a message   *)
(* waits in the channel until the loop receives it, and the loop receives  *)
(* the messages in the order they were sent.  Time passes a second at a    *)
(* time, whatever the threads do; at most MaxPending Ticks wait in the     *)
(* channel.                                                                *)
(***************************************************************************)
PendingTicks == Cardinality({i \in 1..Len(queue) : queue[i].tag = "Tick"})

\* the tick thread, with at most MaxPending Ticks waiting
LiveTick ==
    /\ PendingTicks < MaxPending
    /\ RunSubscribeTick

\* a second passes
LockAdvance ==
    /\ clock < MaxLockTime
    /\ clock' = clock + 1
    /\ UNCHANGED <<config, faulty, lastTick, state, prevState, lastEvent, lastEffects, queue, workers,
                   doorLast, cameraUp, doorUp, camReported, doorReported, hist, exits, reports>>

\* lockCountdown after transition handled e in state s and returned effs
CountdownAfter(s, e, effs) ==
    IF s.tag = "AnalyzingFramesClassifying" /\ e.tag = "FramesClassifyDone" /\ e.res.ok
    THEN IF /\ s.door_state = DoorUnlocked
            /\ Listed(e.res.val, config.lock_list)
            /\ ~Listed(e.res.val, config.unlock_list)
         THEN clock
         ELSE -1
    ELSE IF \E i \in 1..Len(effs) : effs[i] = LockDoor
    THEN -1
    ELSE lockCountdown

\* one iteration of run_loop, with the lock countdown kept
LoopStepCountdown ==
    /\ LoopBody
    /\ lockCountdown' = CountdownAfter(state, Head(queue),
                                       transition(config, state, Head(queue), clock)[2])
    /\ UNCHANGED <<staleKinds, dogRun>>

\* the camera reports Connected: at start, and again when a camera of the
\* MultiDeviceCamera returns while another one stayed connected
CameraReportsConnected ==
    /\ cameraUp => reports > 0
    /\ reports' = IF cameraUp THEN reports - 1 ELSE reports
    /\ SubscribeCamera({"Connected"})

\* the door reports Connected at start
DoorReportsConnected ==
    /\ ~doorUp
    /\ SubscribeDoor
    /\ UNCHANGED reports

NextLock ==
    \/ LoopStepCountdown
    \/ RunStartCamera
    \/ DoorLockStore
    \/ DoorUnlockStore
    \/ RunLockDoor
    \/ RunUnlockDoor
    \/ RunCaptureFrames
    \/ RunClassifyFrames
    \/ LiveTick
    \/ CameraReportsConnected
    \/ DoorReportsConnected
    \/ LockAdvance

InitLockBase ==
    /\ state = init[1]
    /\ lastEffects = init[2]
    /\ prevState = init[1]
    /\ lastEvent = NoEvent
    /\ clock = 0
    /\ queue = << >>
    /\ workers = spawn_effects(init[2])
    /\ doorLast = "none"
    /\ cameraUp = FALSE
    /\ doorUp = FALSE
    /\ camReported = FALSE
    /\ doorReported = FALSE
    /\ staleKinds = {}
    /\ dogRun = 0
    /\ lockCountdown = -1
    /\ loopResult = "running"
    /\ relay = RelayNew
    /\ fakeDoor = FakeNew("DeviceDoorFake")
    /\ multi = MultiNew(MainCameras)
    /\ faulty = FALSE
    /\ lastTick = 0

InitLock ==
    /\ InitLockBase
    /\ config \in LockConfigs
    /\ reports = MaxLongReports

SpecLock == InitLock /\ [][NextLock]_vars

(***************************************************************************)
(* The same system with a clock that never stops.  An Instant is opaque:   *)
(* transition only compares instants by duration_since, so when the clock  *)
(* is at the horizon, the longest window of the configuration, a second    *)
(* passes by moving the origin: every stored instant gets one second       *)
(* older.  The second passes only while every instant transition can still *)
(* compare (the timers of the state, the Ticks in the channel) is less     *)
(* than the horizon old, so no comparison changes.                         *)
(***************************************************************************)
\* the longest window a Tick arm of transition compares with (the 5 s
\* re-check of LockingGracePeriod only comes before a longer locking window)
Horizon(cfg) ==
    Max(Max(cfg.tick_rate, cfg.analyze_rate),
        Max(cfg.unlock_grace_period, cfg.locking_grace_period))

\* a second passes
LiveAdvance ==
    /\ clock < Horizon(config)
    /\ clock' = clock + 1
    /\ UNCHANGED <<config, faulty, lastTick, state, prevState, lastEvent, lastEffects, queue, workers,
                   doorLast, cameraUp, doorUp, camReported, doorReported, hist, exits, reports>>

Older(t) == Max(t - 1, 0)

OlderDevice(d) == IF d.tag = "Connected" THEN [d EXCEPT !.at = Older(@)] ELSE d

OlderState(s) ==
    CASE s.tag = "DevicesInitializing" ->
             [s EXCEPT !.device_states.camera = OlderDevice(@),
                       !.device_states.door = OlderDevice(@)]
      [] s.tag = "ControllingDoor" -> [s EXCEPT !.start_time = Older(@)]
      [] s.tag = "Idle" ->
             [s EXCEPT !.message_time = Older(@), !.last_classification = Older(@)]
      [] s.tag = "UnlockedGracePeriod" -> [s EXCEPT !.countdown_start = Older(@)]
      [] s.tag = "LockingGracePeriod" ->
             [s EXCEPT !.countdown_start = Older(@), !.last_detection = Older(@)]
      [] OTHER -> s

OlderEvent(e) == IF e.tag = "Tick" THEN [e EXCEPT !.now = Older(@)] ELSE e

\* the instants of state s that transition compares with a Tick
Timers(s) ==
    CASE s.tag = "Idle" -> {s.last_classification}
      [] s.tag = "UnlockedGracePeriod" -> {s.countdown_start}
      [] s.tag = "LockingGracePeriod" -> {s.countdown_start, s.last_detection}
      [] OTHER -> {}

\* a second passes with the clock at the horizon
ClockRebase ==
    /\ clock = Horizon(config)
    /\ \A t \in Timers(state) : t > 0
    /\ \A i \in 1..Len(queue) : queue[i].tag = "Tick" => queue[i].now > 0
    /\ state' = OlderState(state)
    /\ prevState' = OlderState(prevState)
    /\ lastEvent' = OlderEvent(lastEvent)
    /\ queue' = [i \in 1..Len(queue) |-> OlderEvent(queue[i])]
    /\ lastTick' = Older(lastTick)
    /\ lockCountdown' = IF lockCountdown < 0 THEN lockCountdown ELSE Older(lockCountdown)
    /\ UNCHANGED <<config, faulty, clock, lastEffects, workers, doorLast, cameraUp, doorUp,
                   camReported, doorReported, staleKinds, dogRun, exits, reports>>

\* the camera reports Connected after being away
CameraStarts == ~cameraUp /\ CameraReportsConnected

NextLive ==
    \/ LoopStepCountdown
    \/ RunStartCamera
    \/ DoorLockStore
    \/ DoorUnlockStore
    \/ RunLockDoor
    \/ RunUnlockDoor
    \/ RunCaptureFrames
    \/ RunClassifyFrames
    \/ LiveTick
    \/ CameraReportsConnected
    \/ DoorReportsConnected
    \/ LiveAdvance
    \/ ClockRebase

\* the loop receives what is sent, a spawned thread runs and its device call
\* returns, the tick thread loops for ever, and a device that is away
\* reports Connected
ThreadFairness ==
    /\ WF_vars(LoopStepCountdown)
    /\ WF_vars(RunStartCamera)
    /\ WF_vars(DoorLockStore)
    /\ WF_vars(DoorUnlockStore)
    /\ WF_vars(RunLockDoor)
    /\ WF_vars(RunUnlockDoor)
    /\ WF_vars(RunCaptureFrames)
    /\ WF_vars(RunClassifyFrames)
    /\ WF_vars(LiveTick)
    /\ WF_vars(CameraStarts)
    /\ WF_vars(DoorReportsConnected)

SpecLive ==
    /\ InitLock
    /\ [][NextLive]_vars
    /\ ThreadFairness
    /\ WF_vars(LiveAdvance)
    /\ WF_vars(ClockRebase)

(***************************************************************************)
(* The same system with outages: a device reports Disconnected and         *)
(* Connected again (device_door/impl_fake.rs 40-59,                        *)
(* device_camera/impl_fake.rs 40-59, device_camera/impl_multi.rs 39-73).   *)
(* MaxOutageReports counts the Disconnected events and the Connected       *)
(* events the camera repeats; a device that is away reports Connected when *)
(* it returns.  The configurations are Config::default() and RunConfigs.   *)
(***************************************************************************)
\* the camera reports Disconnected
CameraReportsDisconnected ==
    /\ reports > 0
    /\ reports' = reports - 1
    /\ SubscribeCamera({"Disconnected"})

\* the door, connected, reports Disconnected
DoorReportsDisconnected ==
    /\ doorUp
    /\ reports > 0
    /\ reports' = reports - 1
    /\ SubscribeDoor

InitOutage ==
    /\ InitLockBase
    /\ config \in {ConfigDefault} \cup RunConfigs
    /\ reports = MaxOutageReports

NextOutage ==
    \/ LoopStepCountdown
    \/ RunStartCamera
    \/ DoorLockStore
    \/ DoorUnlockStore
    \/ RunLockDoor
    \/ RunUnlockDoor
    \/ RunCaptureFrames
    \/ RunClassifyFrames
    \/ LiveTick
    \/ CameraReportsConnected
    \/ DoorReportsConnected
    \/ CameraReportsDisconnected
    \/ DoorReportsDisconnected
    \/ LiveAdvance
    \/ ClockRebase

\* a device may go away and come back; everything else is scheduled as in SpecLive
SpecOutage ==
    /\ InitOutage
    /\ [][NextOutage]_vars
    /\ ThreadFairness
    /\ WF_vars(LiveAdvance)
    /\ WF_vars(ClockRebase)

(***************************************************************************)
(* The relay door driver on its own: up to MaxCalls lock()/unlock() calls  *)
(* with any logger outcomes, then the driver is dropped.                   *)
(***************************************************************************)
InitRelay ==
    /\ config = ConfigDefault
    /\ state = init[1]
    /\ lastEffects = init[2]
    /\ prevState = init[1]
    /\ lastEvent = NoEvent
    /\ clock = 0
    /\ queue = << >>
    /\ workers = EmptyBag
    /\ doorLast = "none"
    /\ cameraUp = FALSE
    /\ doorUp = FALSE
    /\ camReported = FALSE
    /\ doorReported = FALSE
    /\ staleKinds = {}
    /\ dogRun = 0
    /\ lockCountdown = -1
    /\ loopResult = "running"
    /\ relay = RelayNew
    /\ fakeDoor = FakeNew("DeviceDoorFake")
    /\ multi = MultiNew(MainCameras)
    /\ reports = 0
    /\ faulty = TRUE
    /\ lastTick = 0

RelayFrame ==
    UNCHANGED <<config, faulty, lastTick, state, clock, prevState, lastEvent, lastEffects, queue, workers,
                doorLast, cameraUp, doorUp, camReported, doorReported, hist, loopResult,
                fakeDoor, multi, reports>>

Called(r, op, ok) == [r EXCEPT !.calls = Append(@, [op |-> op, ok |-> ok])]

RelayLock ==
    /\ ~relay.dropped
    /\ Len(relay.calls) < MaxCalls
    /\ \E log1, log2 \in BOOLEAN :
          relay' = Called(relay_lock(relay, log1, log2)[1], "lock",
                          relay_lock(relay, log1, log2)[2])
    /\ RelayFrame

RelayUnlock ==
    /\ ~relay.dropped
    /\ Len(relay.calls) < MaxCalls
    /\ \E log1, log2 \in BOOLEAN :
          relay' = Called(relay_unlock(relay, log1, log2)[1], "unlock",
                          relay_unlock(relay, log1, log2)[2])
    /\ RelayFrame

RelayDrop ==
    /\ ~relay.dropped
    /\ \E log1, log2 \in BOOLEAN : relay' = relay_drop(relay, log1, log2)
    /\ RelayFrame

NextRelay == RelayLock \/ RelayUnlock \/ RelayDrop

SpecRelay == InitRelay /\ [][NextRelay]_vars

(***************************************************************************)
(* The door implementations on their own: up to MaxCalls lock()/unlock()   *)
(* calls on each, with any logger outcomes.  A fake door is shared (&self, *)
(* an AtomicBool): a call stores the flag, sleeps 1 s and then returns,    *)
(* and other calls run in between.  The calls are kept in the order of     *)
(* their stores.                                                           *)
(***************************************************************************)
InitDoors ==
    /\ config = ConfigDefault
    /\ state = init[1]
    /\ lastEffects = init[2]
    /\ prevState = init[1]
    /\ lastEvent = NoEvent
    /\ clock = 0
    /\ queue = << >>
    /\ workers = EmptyBag
    /\ doorLast = "none"
    /\ cameraUp = FALSE
    /\ doorUp = FALSE
    /\ camReported = FALSE
    /\ doorReported = FALSE
    /\ staleKinds = {}
    /\ dogRun = 0
    /\ lockCountdown = -1
    /\ loopResult = "running"
    /\ relay = RelayNew
    /\ \E impl \in FakeImpls : fakeDoor = FakeNew(impl)
    /\ multi = MultiNew(MainCameras)
    /\ reports = 0
    /\ faulty = TRUE
    /\ lastTick = 0

FakeFrame ==
    UNCHANGED <<config, faulty, lastTick, state, clock, prevState, lastEvent, lastEffects, queue, workers,
                doorLast, cameraUp, doorUp, camReported, doorReported, hist, loopResult,
                relay, multi, reports>>

\* a call of op that has stored the flag and sleeps
Running(op) == [op |-> op, ok |-> FALSE, done |-> FALSE]

\* a call of op that has returned
Returned(op, ok) == [op |-> op, ok |-> ok, done |-> TRUE]

\* lock() up to its sleep: the first logger call fails and lock() returns
\* Err, or the flag is stored
FakeLock ==
    /\ Len(fakeDoor.calls) < MaxCalls
    /\ \E log1 \in BOOLEAN :
          fakeDoor' = [fake_lock(fakeDoor, log1, TRUE)[1] EXCEPT
                          !.calls = Append(@, IF log1 THEN Running("lock")
                                              ELSE Returned("lock", fake_lock(fakeDoor, log1, TRUE)[2]))]
    /\ FakeFrame

\* lock() after its sleep: the second logger call, and the return
FakeLockReturn ==
    /\ \E i \in 1..Len(fakeDoor.calls), log2 \in BOOLEAN :
          /\ fakeDoor.calls[i] = Running("lock")
          /\ fakeDoor' = [fakeDoor EXCEPT
                            !.calls[i] = Returned("lock", fake_lock(fakeDoor, TRUE, log2)[2])]
    /\ FakeFrame

\* unlock() up to its sleep
FakeUnlock ==
    /\ Len(fakeDoor.calls) < MaxCalls
    /\ \E log1 \in BOOLEAN :
          fakeDoor' = [fake_unlock(fakeDoor, log1, TRUE)[1] EXCEPT
                          !.calls = Append(@, IF log1 THEN Running("unlock")
                                              ELSE Returned("unlock", fake_unlock(fakeDoor, log1, TRUE)[2]))]
    /\ FakeFrame

\* unlock() after its sleep
FakeUnlockReturn ==
    /\ \E i \in 1..Len(fakeDoor.calls), log2 \in BOOLEAN :
          /\ fakeDoor.calls[i] = Running("unlock")
          /\ fakeDoor' = [fakeDoor EXCEPT
                            !.calls[i] = Returned("unlock", fake_unlock(fakeDoor, TRUE, log2)[2])]
    /\ FakeFrame

NextDoors ==
    \/ FakeLock
    \/ FakeLockReturn
    \/ FakeUnlock
    \/ FakeUnlockReturn
    \/ RelayLock
    \/ RelayUnlock
    \/ RelayDrop

SpecDoors == InitDoors /\ [][NextDoors]_vars

(***************************************************************************)
(* The multi-camera fan-in on its own: 1..MaxCameras cameras, up to        *)
(* MaxEvents events taken from their receivers, any camera sending any     *)
(* event.                                                                  *)
(***************************************************************************)
InitMulti ==
    /\ config = ConfigDefault
    /\ state = init[1]
    /\ lastEffects = init[2]
    /\ prevState = init[1]
    /\ lastEvent = NoEvent
    /\ clock = 0
    /\ queue = << >>
    /\ workers = EmptyBag
    /\ doorLast = "none"
    /\ cameraUp = FALSE
    /\ doorUp = FALSE
    /\ camReported = FALSE
    /\ doorReported = FALSE
    /\ staleKinds = {}
    /\ dogRun = 0
    /\ lockCountdown = -1
    /\ loopResult = "running"
    /\ relay = RelayNew
    /\ fakeDoor = FakeNew("DeviceDoorFake")
    /\ \E n \in 1..MaxCameras : multi = MultiNew(n)
    /\ reports = 0
    /\ faulty = TRUE
    /\ lastTick = 0

MultiFrame ==
    UNCHANGED <<config, faulty, lastTick, state, clock, prevState, lastEvent, lastEffects, queue, workers,
                doorLast, cameraUp, doorUp, camReported, doorReported, hist, loopResult,
                relay, fakeDoor, reports>>

MultiConnected ==
    /\ multi.received < MaxEvents
    /\ \E i \in 1..multi.cameras : multi' = multi_recv(multi, i, "Connected")
    /\ MultiFrame

MultiDisconnected ==
    /\ multi.received < MaxEvents
    /\ \E i \in 1..multi.cameras : multi' = multi_recv(multi, i, "Disconnected")
    /\ MultiFrame

NextMulti == MultiConnected \/ MultiDisconnected

SpecMulti == InitMulti /\ [][NextMulti]_vars

(***************************************************************************)
(* Vocabulary of the properties                                            *)
(***************************************************************************)
IsConnecting(s) == s.tag = "DevicesInitializing"

\* every state other than DevicesInitializing
IsOperating(s) ==
    s.tag \in {"Idle", "AnalyzingFramesCapture", "AnalyzingFramesClassifying",
               "ControllingDoor", "UnlockedGracePeriod", "LockingGracePeriod", "Error"}

CameraGone == CameraEvent("Disconnected")
DoorGone == DoorEvent("Disconnected")

\* the last loop iteration handled a successful classification while classifying
ClassifyStep ==
    /\ prevState.tag = "AnalyzingFramesClassifying"
    /\ lastEvent.tag = "FramesClassifyDone"
    /\ lastEvent.res.ok

\* a lock() or unlock() is requested, running, or its completion is unread
DoorCommandInFlight ==
    \/ \E eff \in {LockDoor, UnlockDoor, InLock, InUnlock} : BagIn(eff, workers)
    \/ \E i \in 1..Len(queue) : queue[i].tag \in {"DoorLockDone", "DoorUnlockDone"}

\* the (state kind, event kind) pairs that transition names in an arm
EventKind(e) ==
    IF e.tag \in {"CameraEvent", "DoorEvent"} THEN <<e.tag, e.ev>>
    ELSE IF e.tag = "Tick" THEN <<"Tick", "">>
    ELSE <<e.tag, IF e.res.ok THEN "Ok" ELSE "Err">>

ExplicitRules ==
    { <<"DevicesInitializing", <<"CameraEvent", "Connected">>>>,
      <<"DevicesInitializing", <<"CameraStartDone", "Ok">>>>,
      <<"DevicesInitializing", <<"DoorEvent", "Connected">>>>,
      <<"DevicesInitializing", <<"DoorLockDone", "Ok">>>>,
      <<"AnalyzingFramesCapture", <<"FramesCaptureDone", "Ok">>>>,
      <<"AnalyzingFramesClassifying", <<"FramesClassifyDone", "Ok">>>>,
      <<"LockingGracePeriod", <<"Tick", "">>>>,
      <<"UnlockedGracePeriod", <<"Tick", "">>>>,
      <<"ControllingDoor", <<"DoorLockDone", "Ok">>>>,
      <<"ControllingDoor", <<"DoorUnlockDone", "Ok">>>>,
      <<"ControllingDoor", <<"DoorLockDone", "Err">>>>,
      <<"ControllingDoor", <<"DoorUnlockDone", "Err">>>>,
      <<"Error", <<"DoorEvent", "Connected">>>>,
      <<"Error", <<"CameraEvent", "Connected">>>>,
      <<"Idle", <<"Tick", "">>>> }

HasRule(s, e) ==
    \/ <<s.tag, EventKind(e)>> \in ExplicitRules
    \/ e = CameraGone
    \/ e = DoorGone

\* well-formed values of State and Effect
IsCameraState(c) ==
    \/ c \in {CameraDisconnected, CameraStarted}
    \/ \E t \in Instants : c = CameraConnected(t)

IsDoorState(d) ==
    \/ d \in {DoorDisconnected, DoorInitialized, DoorLocked, DoorUnlocked}
    \/ \E t \in Instants : d = DoorConnected(t)

IsState(s) ==
    CASE s.tag = "DevicesInitializing" ->
            /\ DOMAIN s = {"tag", "device_states"}
            /\ IsCameraState(s.device_states.camera)
            /\ IsDoorState(s.device_states.door)
      [] s.tag = "AnalyzingFramesCapture" ->
            /\ DOMAIN s = {"tag", "door_state"}
            /\ IsDoorState(s.door_state)
      [] s.tag = "AnalyzingFramesClassifying" ->
            /\ DOMAIN s = {"tag", "door_state", "frames"}
            /\ IsDoorState(s.door_state)
            /\ s.frames \in CaptureResults
      [] s.tag = "ControllingDoor" ->
            /\ DOMAIN s = {"tag", "action", "door_state", "start_time"}
            /\ s.action \in {"Locking", "Unlocking"}
            /\ IsDoorState(s.door_state)
            /\ s.start_time \in Instants
      [] s.tag = "Idle" ->
            /\ DOMAIN s = {"tag", "door_state", "message", "message_time",
                           "last_classification"}
            /\ IsDoorState(s.door_state)
            /\ s.message_time \in Instants
            /\ s.last_classification \in Instants
      [] s.tag = "UnlockedGracePeriod" ->
            /\ DOMAIN s = {"tag", "door_state", "countdown_start"}
            /\ IsDoorState(s.door_state)
            /\ s.countdown_start \in Instants
      [] s.tag = "LockingGracePeriod" ->
            /\ DOMAIN s = {"tag", "door_state", "countdown_start", "last_detection"}
            /\ IsDoorState(s.door_state)
            /\ s.countdown_start \in Instants
            /\ s.last_detection \in Instants
      [] s.tag = "Error" ->
            /\ DOMAIN s = {"tag", "message", "door_state"}
            /\ IsDoorState(s.door_state)
      [] OTHER -> FALSE

IsEffect(eff) ==
    eff.tag \in {"StartCamera", "LockDoor", "UnlockDoor", "CaptureFrames", "ClassifyFrames",
                 "SubscribeToCameraEvents", "SubscribeToDoorEvents", "SubscribeTick",
                 "Notify"}

Count(seq, x) == Cardinality({i \in 1..Len(seq) : seq[i] = x})

(***************************************************************************)
(* Properties                                                              *)
(***************************************************************************)

\* C1: while the controller is in DevicesInitializing and no lock or unlock
\* command is in flight, the last command the door executed is not unlock().
C1_FailSafeLocked ==
    (IsConnecting(state) /\ ~DoorCommandInFlight) => doorLast # "unlock"

\* C2: transition gives the same state and the same effects whatever the
\* wall clock reads when it is evaluated.
C2_ClockIndependent ==
    \A e \in CoreEvents(clock) :
        \A c1 \in clock..MaxTime, c2 \in clock..MaxTime :
            transition(config, state, e, c1) = transition(config, state, e, c2)

\* C3: transition answers every event in every state with a well-formed state
\* and effect list, and a (state, event) pair that no arm names leaves the
\* state unchanged and produces no effect.
C3_Total ==
    /\ IsState(state)
    /\ \A i \in 1..Len(lastEffects) : IsEffect(lastEffects[i])
    /\ (lastEvent # NoEvent /\ ~HasRule(prevState, lastEvent)) =>
          (state = prevState /\ lastEffects = << >>)

C3_Witness ==
    /\ prevState.tag = "Error"
    /\ lastEvent.tag = "Tick"
    /\ state = prevState
    /\ lastEffects = << >>

\* C4: init() gives DevicesInitializing with camera and door Disconnected and
\* exactly three effects: each of the three subscriptions once.
C4_Init ==
    lastEvent = NoEvent =>
        /\ state = DevicesInitializing([camera |-> CameraDisconnected,
                                        door |-> DoorDisconnected])
        /\ Len(lastEffects) = 3
        /\ Count(lastEffects, SubscribeToCameraEvents) = 1
        /\ Count(lastEffects, SubscribeToDoorEvents) = 1
        /\ Count(lastEffects, SubscribeTick) = 1

C4_Witness ==
    /\ lastEvent = NoEvent
    /\ IsConnecting(state)
    /\ Len(lastEffects) = 3

\* C5: a classification result with a lock-list match is answered as a cat,
\* whether or not it also holds an unlock-list match: with the door recorded
\* Unlocked the lock countdown starts, otherwise the controller goes Idle
\* without effects (the Idle message is left out of the comparison).
C5_CatPrecedence ==
    (ClassifyStep /\ Listed(lastEvent.res.val, config.lock_list)) =>
        IF prevState.door_state = DoorUnlocked
        THEN state.tag = "LockingGracePeriod"
        ELSE /\ state.tag = "Idle"
             /\ lastEffects = << >>

\* C6: a classification result with a lock-list match never yields UnlockDoor,
\* in any state, also when the result holds a qualifying dog.
C6_NoUnlockWithCat ==
    ( /\ lastEvent.tag = "FramesClassifyDone"
      /\ lastEvent.res.ok
      /\ Listed(lastEvent.res.val, config.lock_list) ) =>
        UnlockDoor \notin Range(lastEffects)

C6_Witness ==
    /\ ClassifyStep
    /\ Listed(lastEvent.res.val, config.lock_list)
    /\ Listed(lastEvent.res.val, config.unlock_list)
    /\ UnlockDoor \notin Range(lastEffects)

\* C7: dog_detected holds exactly when some classification of some frame
\* carries a label that contains an unlock_list label, case ignored, with a
\* confidence at least that entry's min_confidence; cat_detected likewise with
\* lock_list; a result without classifications gives neither.  The arm taken
\* after a classification shows the two values.
C7_Detection ==
    /\ \A cs \in ClassifyResults :
          /\ dog_detected(config, cs) <=> Listed(cs, config.unlock_list)
          /\ cat_detected(config, cs) <=> Listed(cs, config.lock_list)
    /\ ClassifyStep =>
          LET d == Listed(lastEvent.res.val, config.unlock_list)
              c == Listed(lastEvent.res.val, config.lock_list)
              none == \A f \in Range(lastEvent.res.val) : f = << >>
          IN  /\ (state.tag = "ControllingDoor") <=> (d /\ ~c)
              /\ ( \/ state.tag = "LockingGracePeriod"
                   \/ ( /\ state.tag = "Idle"
                        /\ state.message = "Cat detected - door remains locked" ) )
                 <=> (~d /\ c)
              /\ none => ( /\ state.tag = "Idle"
                           /\ state.message = "No relevant animals detected"
                           /\ lastEffects = << >> )

\* the confidence equals min_confidence and the listed label is upper case
C7_Witness ==
    /\ ClassifyStep
    /\ config = ConfigLongLock
    /\ lastEvent.res.val = << << Classification(dog, 80) >> >>
    /\ state.tag = "ControllingDoor"

\* C8: after a Disconnected event in an operating state the controller is in
\* DevicesInitializing with that device Disconnected and the other device
\* still recorded as connected.
C8_OtherDeviceKept ==
    /\ (IsOperating(prevState) /\ lastEvent = CameraGone) =>
          /\ IsConnecting(state)
          /\ state.device_states.camera = CameraDisconnected
          /\ state.device_states.door # DoorDisconnected
    /\ (IsOperating(prevState) /\ lastEvent = DoorGone) =>
          /\ IsConnecting(state)
          /\ state.device_states.door = DoorDisconnected
          /\ state.device_states.camera # CameraDisconnected

\* C9 as stated: a Disconnected event in an operating state yields no effect.
C9_NoEffects ==
    (IsOperating(prevState) /\ lastEvent \in {CameraGone, DoorGone}) =>
        lastEffects = << >>

\* C10: the controller is in an operating state only if the loop has seen
\* Connected from the camera and from the door since the last Disconnected
\* it saw from either.
C10_OperatingOnlyWhenBothConnected ==
    IsOperating(state) => (camReported /\ doorReported)

\* C11: a completion of an effect issued before a Disconnected event, consumed
\* after that event, leaves the state unchanged and produces no effects.
C11_StaleAbsorbed ==
    (IsCompletion(lastEvent) /\ CompletedKind(lastEvent) \in staleKinds) =>
        (state = prevState /\ lastEffects = << >>)

\* effects of one kind issued whose completion the loop has not consumed
OutstandingCount(kind) ==
    SumCopies(workers, {eff \in BagToSet(workers) : eff.tag = kind})
    + Cardinality({i \in 1..Len(queue) : CompletedKind(queue[i]) = kind})

\* C12: in the running system at most one CaptureFrames and at most one
\* ClassifyFrames is outstanding (issued, completion not yet consumed).
C12_OneCaptureOneClassify ==
    /\ OutstandingCount("CaptureFrames") <= 1
    /\ OutstandingCount("ClassifyFrames") <= 1

\* C13: while the controller is in DevicesInitializing no door command is in
\* flight and the state holds no frames.  The command stated here is the one
\* that opens the door, UnlockDoor (a LockDoor is in flight in
\* DevicesInitializing each time the door has just reported Connected).
C13_ConnectingQuiet ==
    IsConnecting(state) =>
        /\ OutstandingCount("UnlockDoor") = 0
        /\ "frames" \notin DOMAIN state

\* C14: UnlockDoor is emitted only by a transition whose event is a Tick, and
\* the transitions that handle camera and frame events emit neither LockDoor
\* nor UnlockDoor.
C14_UnlockOnTickOnly ==
    /\ UnlockDoor \in Range(lastEffects) => lastEvent.tag = "Tick"
    /\ lastEvent.tag \in {"CameraEvent", "CameraStartDone",
                          "FramesCaptureDone", "FramesClassifyDone"} =>
          (LockDoor \notin Range(lastEffects) /\ UnlockDoor \notin Range(lastEffects))

\* C15: a dog detection that has not persisted is not answered with
\* UnlockDoor: when classifications alternate between a qualifying dog and
\* nothing, each dog result follows a result without a dog, and no UnlockDoor
\* is issued on it.
C15_FlapRejected ==
    UnlockDoor \in Range(lastEffects) => dogRun >= 2

\* C16: with the door Unlocked, a classification holding a qualifying cat and
\* no dog starts the lock countdown at that instant T and emits no LockDoor;
\* a Tick(now) with now - T below locking_grace_period emits no LockDoor; the
\* first Tick(now) with now - T at or above it emits exactly one LockDoor (so
\* no countdown is still open after such a Tick).
C16_DebouncedLock ==
    /\ ( /\ ClassifyStep
          /\ prevState.door_state = DoorUnlocked
          /\ Listed(lastEvent.res.val, config.lock_list)
          /\ ~Listed(lastEvent.res.val, config.unlock_list) ) =>
            /\ state.tag = "LockingGracePeriod"
            /\ state.countdown_start = lockCountdown
            /\ LockDoor \notin Range(lastEffects)
    /\ ( /\ lastEvent.tag = "Tick"
          /\ prevState.tag = "LockingGracePeriod"
          /\ lastEvent.now - prevState.countdown_start < config.locking_grace_period ) =>
            LockDoor \notin Range(lastEffects)
    /\ (lastEvent.tag = "Tick" /\ LockDoor \in Range(lastEffects)) =>
            Count(lastEffects, LockDoor) = 1
    /\ (lastEvent.tag = "Tick" /\ lockCountdown >= 0) =>
            lastEvent.now - lockCountdown < config.locking_grace_period

\* C17: a lock countdown, once started, runs until LockDoor is emitted: a
\* Tick(now) received in the countdown emits LockDoor if now is at or after
\* countdown start + locking_grace_period, and otherwise leaves the countdown
\* as it is (it is not abandoned for a re-capture), whatever the window.
C17_CountdownKept ==
    (prevState.tag = "LockingGracePeriod" /\ lastEvent.tag = "Tick") =>
        IF lastEvent.now - prevState.countdown_start >= config.locking_grace_period
        THEN LockDoor \in Range(lastEffects)
        ELSE state = prevState /\ lastEffects = << >>

\* C18: with the door recorded Unlocked, a classification holding neither a
\* qualifying dog nor a qualifying cat starts the lock countdown.
C18_RelockWhenGone ==
    ( /\ ClassifyStep
      /\ prevState.door_state = DoorUnlocked
      /\ ~Listed(lastEvent.res.val, config.unlock_list)
      /\ ~Listed(lastEvent.res.val, config.lock_list) ) =>
        state.tag = "LockingGracePeriod"

\* C19: in Idle with last_classification t, a Tick(now) with now - t below
\* analyze_rate leaves the state unchanged and emits nothing; a Tick(now) with
\* now - t at or above analyze_rate moves to AnalyzingFramesCapture and emits
\* exactly [CaptureFrames]; no other event received in Idle emits
\* CaptureFrames.
C19_CaptureRate ==
    /\ (prevState.tag = "Idle" /\ lastEvent.tag = "Tick") =>
          IF lastEvent.now - prevState.last_classification < config.analyze_rate
          THEN state = prevState /\ lastEffects = << >>
          ELSE /\ state.tag = "AnalyzingFramesCapture"
               /\ lastEffects = << CaptureFrames >>
    /\ (prevState.tag = "Idle" /\ lastEvent # NoEvent /\ lastEvent.tag # "Tick") =>
          CaptureFrames \notin Range(lastEffects)

\* the Tick arrives exactly analyze_rate after the last classification
C19_Witness ==
    /\ prevState.tag = "Idle"
    /\ lastEvent.tag = "Tick"
    /\ lastEvent.now - prevState.last_classification = config.analyze_rate
    /\ state.tag = "AnalyzingFramesCapture"
    /\ lastEffects = << CaptureFrames >>

\* C20: in AnalyzingFramesCapture, FramesCaptureDone(Ok(frames)) with at least
\* one frame moves to AnalyzingFramesClassifying and emits exactly one
\* ClassifyFrames carrying the captured frames in their order; the recorded
\* door state is unchanged.
C20_CaptureToClassify ==
    ( /\ prevState.tag = "AnalyzingFramesCapture"
      /\ lastEvent.tag = "FramesCaptureDone"
      /\ lastEvent.res.ok
      /\ Len(lastEvent.res.val) > 0 ) =>
        /\ state.tag = "AnalyzingFramesClassifying"
        /\ state.door_state = prevState.door_state
        /\ Len(lastEffects) = 1
        /\ lastEffects[1].tag = "ClassifyFrames"
        /\ lastEffects[1].frames = lastEvent.res.val

\* two frames captured while the door is recorded Unlocked
C20_Witness ==
    /\ prevState = AnalyzingFramesCapture(DoorUnlocked)
    /\ lastEvent = FramesCaptureDone(Ok(<< FrameA, FrameB >>))
    /\ state.tag = "AnalyzingFramesClassifying"
    /\ state.door_state = DoorUnlocked
    /\ lastEffects = << ClassifyFrames(<< FrameA, FrameB >>) >>

\* C21: an unsuccessful camera cycle -- FramesCaptureDone(Ok([])) or
\* FramesCaptureDone(Err) while capturing, FramesClassifyDone(Err) while
\* classifying -- emits no effect and leaves the controller in Idle.
C21_FailedCycleToIdle ==
    ( \/ /\ prevState.tag = "AnalyzingFramesCapture"
         /\ lastEvent.tag = "FramesCaptureDone"
         /\ (lastEvent.res.ok => lastEvent.res.val = << >>)
      \/ /\ prevState.tag = "AnalyzingFramesClassifying"
         /\ lastEvent.tag = "FramesClassifyDone"
         /\ ~lastEvent.res.ok ) =>
        /\ state.tag = "Idle"
        /\ lastEffects = << >>

\* C22: after a door command failed (DoorLockDone(Err) while locking,
\* DoorUnlockDone(Err) while unlocking) with the door device still
\* connected, ticks can bring the command back: some Tick changes the
\* model or emits an effect.  Where every Tick leaves the model as it is
\* and emits nothing, no run of ticks ever re-issues the door effect.
C22_FailedDoorCommandRetried ==
    ( /\ prevState.tag = "ControllingDoor"
      /\ \/ prevState.action = "Locking" /\ lastEvent.tag = "DoorLockDone"
         \/ prevState.action = "Unlocking" /\ lastEvent.tag = "DoorUnlockDone"
      /\ ~lastEvent.res.ok
      /\ doorUp ) =>
        \E n \in Instants : \E clk \in Instants :
            transition(config, state, Tick(n), clk) # << state, << >> >>

\* C23: every one-shot effect thread makes its device call once and ends by
\* appending exactly one message to the channel, the completion of its own
\* kind: a step that takes a thread out of its phase either is the door
\* executing that thread's command (the thread goes on, nothing is sent) or
\* ends the thread with one completion of the matching kind; a door thread
\* reports Ok only after the door executed its command; a thread enters the
\* executed phase only from its own first phase; a step that appends a
\* completion is the end of a thread of that kind.
C23_OneMatchingCompletion ==
    [][ /\ \A eff \in OneShots(workers) :
              CopiesIn(eff, workers') < CopiesIn(eff, workers) =>
                  /\ CopiesIn(eff, workers') = CopiesIn(eff, workers) - 1
                  /\ \/ /\ eff \in {LockDoor, UnlockDoor}
                        /\ workers' = (workers (-) SetToBag({eff}))
                                         (+) SetToBag({[tag |-> eff.tag, stored |-> TRUE]})
                        /\ queue' = queue
                        /\ doorLast' = (IF eff = LockDoor THEN "lock" ELSE "unlock")
                     \/ /\ workers' = workers (-) SetToBag({eff})
                        /\ Len(queue') = Len(queue) + 1
                        /\ SubSeq(queue', 1, Len(queue)) = queue
                        /\ CompletedKind(queue'[Len(queue')]) = eff.tag
                        /\ eff \in {LockDoor, UnlockDoor} => ~queue'[Len(queue')].res.ok
                        /\ doorLast' = doorLast
        /\ \A eff \in {InLock, InUnlock} :
              CopiesIn(eff, workers') > CopiesIn(eff, workers) =>
                  /\ BagIn([tag |-> eff.tag], workers)
                  /\ workers' = (workers (-) SetToBag({[tag |-> eff.tag]}))
                                   (+) SetToBag({eff})
        /\ ( /\ Len(queue') = Len(queue) + 1
             /\ IsCompletion(queue'[Len(queue')]) ) =>
               \E eff \in OneShots(workers) :
                   /\ eff.tag = CompletedKind(queue'[Len(queue')])
                   /\ workers' = workers (-) SetToBag({eff})
      ]_vars

\* the lock thread has run to its end: the door executed lock, the thread is
\* gone and its Ok completion is the last message in the channel
C23_Witness ==
    /\ queue # << >>
    /\ queue[Len(queue)] = DoorLockDone(Ok(<< >>))
    /\ ~BagIn(LockDoor, workers)
    /\ ~BagIn(InLock, workers)
    /\ doorLast = "lock"

\* C24: a step that receives a message hands the current model and the head
\* of the channel to transition, keeps the model it returns, and spawns
\* exactly the effects it returns.
C24_LeftFold ==
    [][ (queue # << >> /\ queue' = Tail(queue)) =>
            /\ state' = transition(config, state, Head(queue), clock)[1]
            /\ workers' = workers
                  (+) spawn_effects(transition(config, state, Head(queue), clock)[2])
      ]_vars

\* C25: the loop returns only because receiving failed: a failed render does
\* not end it.
C25_RenderFailureSurvived ==
    loopResult \in {"running", "receive failed"}

\* C26: what render writes for the current model does not depend on the
\* instant at which it is called.
C26_RenderIgnoresClock ==
    \A t \in clock..MaxTime :
        render(config, state, t) = render(config, state, clock)

\* C27: a door driver that has locked the door at least once and is then
\* dropped has applied lock (set_high) to the relay last.
C27_DropLocks ==
    ( /\ relay.dropped
      /\ \E i \in 1..Len(relay.applied) : relay.applied[i] = "set_high" ) =>
        relay.applied[Len(relay.applied)] = "set_high"

\* C28: CameraEvent(Disconnected) in any state, and DoorEvent(Disconnected) in
\* DevicesInitializing, yield DevicesInitializing with both sub-states
\* Disconnected and no effect.
C28_DisconnectResets ==
    ( \/ lastEvent = CameraGone
      \/ (lastEvent = DoorGone /\ prevState.tag = "DevicesInitializing") ) =>
        /\ state = DevicesInitializing(DeviceStatesDefault)
        /\ lastEffects = << >>

\* the camera disconnected during the unlocked grace period
C28_Witness ==
    /\ prevState.tag = "UnlockedGracePeriod"
    /\ lastEvent = CameraGone
    /\ state = DevicesInitializing(DeviceStatesDefault)
    /\ lastEffects = << >>

\* the recorded door state of a model
DoorOf(s) == IF s.tag = "DevicesInitializing" THEN s.device_states.door ELSE s.door_state

\* C29: while classifying with the door recorded Locked, a result listed for
\* unlocking and not for locking moves to ControllingDoor{Unlocking}, door
\* still recorded Locked, and emits UnlockDoor; a step records the door as
\* Unlocked only on DoorUnlockDone(Ok) while controlling the door; on
\* DoorUnlockDone(Err) while unlocking the recorded door state is kept.
C29_UnlockFlow ==
    /\ ( /\ prevState.tag = "AnalyzingFramesClassifying"
         /\ prevState.door_state = DoorLocked
         /\ lastEvent.tag = "FramesClassifyDone"
         /\ lastEvent.res.ok
         /\ Listed(lastEvent.res.val, config.unlock_list)
         /\ ~Listed(lastEvent.res.val, config.lock_list) ) =>
           /\ state.tag = "ControllingDoor"
           /\ state.action = "Unlocking"
           /\ state.door_state = DoorLocked
           /\ \E i \in 1..Len(lastEffects) : lastEffects[i] = UnlockDoor
    /\ ( DoorOf(state) = DoorUnlocked /\ DoorOf(prevState) # DoorUnlocked ) =>
           /\ prevState.tag = "ControllingDoor"
           /\ lastEvent = DoorUnlockDone(Ok(<< >>))
    /\ ( /\ prevState.tag = "ControllingDoor"
         /\ prevState.action = "Unlocking"
         /\ lastEvent.tag = "DoorUnlockDone" ) =>
           IF lastEvent.res.ok
           THEN DoorOf(state) = DoorUnlocked
           ELSE DoorOf(state) = prevState.door_state

\* an unlock of the Locked door failed and the door is still recorded Locked
C29_Witness ==
    /\ prevState.tag = "ControllingDoor"
    /\ prevState.action = "Unlocking"
    /\ prevState.door_state = DoorLocked
    /\ lastEvent.tag = "DoorUnlockDone"
    /\ ~lastEvent.res.ok
    /\ state.tag = "Error"
    /\ state.door_state = DoorLocked

\* C30: in DevicesInitializing, CameraEvent(Connected) changes only the camera
\* sub-state, to Connected, and emits [StartCamera]; DoorEvent(Connected)
\* changes only the door sub-state, to Connected, and emits [LockDoor];
\* CameraStartDone(Ok) with the door not Initialized sets only the camera to
\* Started, DoorLockDone(Ok) with the camera not Started sets only the door to
\* Initialized, both without effects.
C30_InitIndependent ==
    prevState.tag = "DevicesInitializing" =>
        /\ lastEvent = CameraEvent("Connected") =>
              /\ state.tag = "DevicesInitializing"
              /\ state.device_states.camera.tag = "Connected"
              /\ state.device_states.door = prevState.device_states.door
              /\ lastEffects = << StartCamera >>
        /\ lastEvent = DoorEvent("Connected") =>
              /\ state.tag = "DevicesInitializing"
              /\ state.device_states.door.tag = "Connected"
              /\ state.device_states.camera = prevState.device_states.camera
              /\ lastEffects = << LockDoor >>
        /\ ( /\ lastEvent = CameraStartDone(Ok(<< >>))
             /\ prevState.device_states.door # DoorInitialized ) =>
              /\ state = DevicesInitializing([camera |-> CameraStarted,
                                              door |-> prevState.device_states.door])
              /\ lastEffects = << >>
        /\ ( /\ lastEvent = DoorLockDone(Ok(<< >>))
             /\ prevState.device_states.camera # CameraStarted ) =>
              /\ state = DevicesInitializing([camera |-> prevState.device_states.camera,
                                              door |-> DoorInitialized])
              /\ lastEffects = << >>

\* the door connected while the camera was already started
C30_Witness ==
    /\ prevState.tag = "DevicesInitializing"
    /\ prevState.device_states.camera = CameraStarted
    /\ lastEvent = DoorEvent("Connected")
    /\ state.tag = "DevicesInitializing"
    /\ state.device_states.camera = CameraStarted
    /\ state.device_states.door.tag = "Connected"
    /\ lastEffects = << LockDoor >>

\* C31: in UnlockedGracePeriod, a Tick(now) with at least unlock_grace_period
\* elapsed since countdown_start (an Instant difference, zero when now is the
\* earlier one) moves to AnalyzingFramesCapture with the door still recorded
\* Unlocked and emits exactly [CaptureFrames]; an earlier Tick and every other
\* message that is not a disconnection leave the state unchanged and emit
\* nothing.
C31_UnlockedGraceEnds ==
    ( prevState.tag = "UnlockedGracePeriod" /\ ~IsDisconnect(lastEvent) ) =>
        IF /\ lastEvent.tag = "Tick"
           /\ duration_since(lastEvent.now, prevState.countdown_start)
                  >= config.unlock_grace_period
        THEN /\ prevState.door_state = DoorUnlocked
             /\ state = AnalyzingFramesCapture(DoorUnlocked)
             /\ lastEffects = << CaptureFrames >>
        ELSE /\ state = prevState
             /\ lastEffects = << >>

\* the grace period ended on a Tick stamped exactly unlock_grace_period after
\* its start
C31_Witness ==
    /\ prevState.tag = "UnlockedGracePeriod"
    /\ lastEvent.tag = "Tick"
    /\ config.unlock_grace_period > 0
    /\ lastEvent.now - prevState.countdown_start = config.unlock_grace_period
    /\ state = AnalyzingFramesCapture(DoorUnlocked)
    /\ lastEffects = << CaptureFrames >>

\* a loop step (the clock stands still) whose transition returns CaptureFrames
CaptureIssued ==
    /\ clock' = clock
    /\ lastEffects' # lastEffects \/ state' # state \/ lastEvent' # lastEvent
    /\ \E i \in 1..Len(lastEffects') : lastEffects'[i] = CaptureFrames

\* C32: with no disconnection, every device call returning Ok and ticks that
\* keep arriving, a CaptureFrames effect is issued again and again.
C32_CaptureInfinitelyOften ==
    []<><<CaptureIssued>>_vars

\* a capture was issued after a completed lock command: the Tick that ends an
\* Idle reached from ControllingDoor
C32_Witness ==
    /\ prevState.tag = "Idle"
    /\ prevState.message = "Door locked successfully"
    /\ lastEvent.tag = "Tick"
    /\ state.tag = "AnalyzingFramesCapture"
    /\ lastEffects = << CaptureFrames >>

\* the most recent call of a call record
LastCall(d) == d.calls[Len(d.calls)]

\* C33: for each door implementation, once a call has been made, no call is
\* still running and the most recent one returned Ok, is_unlocked() is true
\* exactly when that call was unlock(); in particular it is false after
\* lock().
C33_IsUnlockedTracksLastCall ==
    /\ ( /\ fakeDoor.calls # << >>
         /\ \A i \in 1..Len(fakeDoor.calls) : fakeDoor.calls[i].done
         /\ LastCall(fakeDoor).ok ) =>
          (fake_is_unlocked(fakeDoor) <=> LastCall(fakeDoor).op = "unlock")
    /\ ( ~relay.dropped /\ relay.calls # << >> /\ LastCall(relay).ok ) =>
          (relay_is_unlocked(relay) <=> LastCall(relay).op = "unlock")

\* a LockDoor or UnlockDoor is in flight: its thread has not run yet, or its
\* completion is still in the channel
DoorEffectInFlight ==
    \/ \E eff \in {LockDoor, UnlockDoor} : BagIn(eff, workers)
    \/ \E eff \in {InLock, InUnlock} : BagIn(eff, workers)
    \/ \E i \in 1..Len(queue) : queue[i].tag \in {"DoorLockDone", "DoorUnlockDone"}

\* C34: whenever the controller is not in Error, its model records the door as
\* Locked and no LockDoor or UnlockDoor is in flight, the last command the
\* door device executed is lock.
C34_QuiescentAgreement ==
    ( /\ state.tag # "Error"
      /\ DoorOf(state) = DoorLocked
      /\ ~DoorEffectInFlight ) =>
        doorLast = "lock"

\* the door may be unlocked in s: it is recorded Unlocked, a grace period is
\* running, or an unlock is in progress
MayBeUnlocked(s) ==
    \/ s.tag \in {"UnlockedGracePeriod", "LockingGracePeriod"}
    \/ (s.tag = "ControllingDoor" /\ s.action = "Unlocking")
    \/ (s.tag \in {"Idle", "AnalyzingFramesCapture", "AnalyzingFramesClassifying"}
          /\ s.door_state = DoorUnlocked)

\* C35: DoorEvent(Disconnected) received in a state in which the door may be
\* unlocked returns effects that contain LockDoor.
C35_DisconnectLocks ==
    ( lastEvent = DoorGone /\ MayBeUnlocked(prevState) ) =>
        \E i \in 1..Len(lastEffects) : lastEffects[i] = LockDoor

\* C36: the step that enters the operating phase (DevicesInitializing to
\* AnalyzingFramesCapture) consumes the completion of an effect issued after
\* the last Disconnected the loop consumed: a stale DoorLockDone(Ok) or
\* CameraStartDone(Ok) does not cause the entry.
C36_EntryFromFreshCompletion ==
    ( /\ prevState.tag = "DevicesInitializing"
      /\ state.tag = "AnalyzingFramesCapture" ) =>
        /\ IsCompletion(lastEvent)
        /\ CompletedKind(lastEvent) \notin staleKinds

\* the loop's fold: the model after the events of es, from model s, and the
\* effects returned on the way, every transition reading clk
RECURSIVE FoldEvents(_, _, _, _)
FoldEvents(cfg, s, es, clk) ==
    IF es = << >> THEN << s, << >> >>
    ELSE LET r == transition(cfg, s, Head(es), clk)
             rest == FoldEvents(cfg, r[1], Tail(es), clk)
         IN  << rest[1], r[2] \o rest[2] >>

CameraSequence == << CameraEvent("Connected"), CameraStartDone(Ok(<< >>)) >>
DoorSequence == << DoorEvent("Connected"), DoorLockDone(Ok(<< >>)) >>

\* the interleavings of the camera sequence with the door sequence
ConnectionOrders ==
    { es \in [1..4 -> Range(CameraSequence) \cup Range(DoorSequence)] :
        /\ \A i, j \in 1..4 : es[i] = es[j] => i = j
        /\ \A i, j \in 1..4 :
              (es[i] = CameraSequence[1] /\ es[j] = CameraSequence[2]) => i < j
        /\ \A i, j \in 1..4 :
              (es[i] = DoorSequence[1] /\ es[j] = DoorSequence[2]) => i < j }

\* C37: from init, every interleaving of [CameraEvent(Connected),
\* CameraStartDone(Ok)] with [DoorEvent(Connected), DoorLockDone(Ok)] ends in
\* AnalyzingFramesCapture{door_state: Locked}, and the effects returned over
\* the run are one StartCamera, one LockDoor and one CaptureFrames.
C37_ConnectionOrder ==
    state = init[1] =>
        \A es \in ConnectionOrders :
            LET r == FoldEvents(config, state, es, clock)
            IN  /\ r[1] = AnalyzingFramesCapture(DoorLocked)
                /\ Len(r[2]) = 3
                /\ Count(r[2], StartCamera) = 1
                /\ Count(r[2], LockDoor) = 1
                /\ Count(r[2], CaptureFrames) = 1

\* the operating phase was entered with the camera's start arriving last,
\* after the door had been initialised
C37_Witness ==
    /\ Cardinality(ConnectionOrders) = 6
    /\ prevState = DevicesInitializing([camera |-> prevState.device_states.camera,
                                        door |-> DoorInitialized])
    /\ prevState.device_states.camera.tag = "Connected"
    /\ lastEvent = CameraStartDone(Ok(<< >>))
    /\ state = AnalyzingFramesCapture(DoorLocked)
    /\ lastEffects = << CaptureFrames >>

\* C38: when one device has reported Disconnected during the operating
\* phase and comes back, while the other one stays connected and silent, the
\* controller eventually is in the operating phase again.
C38_OutageRecovered ==
    (IsOperating(prevState) /\ lastEvent \in {CameraGone, DoorGone}) ~>
        (state.tag \notin {"DevicesInitializing", "Error"})

\* the cameras whose most recent event is Connected
ConnectedCameras(m) == {i \in 1..m.cameras : m.last[i] = "Connected"}

\* C39: in the multi-camera fan-in, after any sequence of per-camera events, connected_count is the number of cameras
\* whose most recent event is Connected (so it is at most the number of cameras), and the aggregate has just sent
\* Connected only if every camera's most recent event is Connected (in particular, once a camera has disconnected,
\* not before all cameras are connected again).
C39_FanInCount ==
    /\ multi.connected_count = Cardinality(ConnectedCameras(multi))
    /\ multi.connected_count <= multi.cameras
    /\ multi.sent = "Connected" => ConnectedCameras(multi) = 1..multi.cameras

====
